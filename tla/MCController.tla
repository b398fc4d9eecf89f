---------------------------- MODULE MCController ----------------------------
(* Small instances of CPodJobController.  The kinds of jobs are chosen so  *)
(* that every piece of CreateBaseJob, and each way past it, is taken.      *)
EXTENDS CPodJobController

MPI(ckpt, save, data) ==
    [type |-> "mpi", ckpt |-> ckpt, ckptMB |-> 2047, save |-> save, saveMB |-> 2047,
     data |-> data, upload |-> save]
PyTorch(ckpt, save, data) == [MPI(ckpt, save, data) EXCEPT !.type = "pytorch"]

\* Everything a job can ask for; nothing; a model to upload and no volume
\* for it; a type that has no base job; a checkpoint that is too large.
Full == MPI(TRUE, TRUE, TRUE)
Plain == MPI(FALSE, FALSE, FALSE)
NoVolume == [PyTorch(FALSE, TRUE, FALSE) EXCEPT !.saveMB = 0]
TensorFlow == [Plain EXCEPT !.type = "tensorFlow"]
Oversized == [MPI(TRUE, FALSE, FALSE) EXCEPT !.ckptMB = 2048]

AllKinds == {Full, PyTorch(TRUE, TRUE, TRUE), Plain, NoVolume, TensorFlow, Oversized}

\* One feature each, for the instance in which names are used again.
ReusedKinds == {MPI(TRUE, FALSE, FALSE), MPI(FALSE, FALSE, TRUE), NoVolume}

\* One kind, for the counterexamples.
PlainKind == {Plain}
DataKind == {MPI(FALSE, FALSE, TRUE)}
UploadKind == {MPI(FALSE, TRUE, FALSE)}
CkptKind == {MPI(TRUE, FALSE, FALSE)}
=============================================================================
