------------------------------- MODULE Sizing -------------------------------
(***************************************************************************)
(* The numbers the program computes: the size of the claims of a CPodJob   *)
(* (internal/controller/cpodjob_controller.go), how the GPUs that the      *)
(* portal asks for become workers (internal/synchronizer/syncjob.go), and  *)
(* the size of the claim for a model (pkg/modelhub/modelscope.go).         *)
(***************************************************************************)
EXTENDS Integers

\* int64(mb*1024*1024) of an int32 is computed in 32 bits, which leaves the
\* 12 low bits of mb.  In MB, since the product is a multiple of one.
ClaimMB(mb) == LET low == mb % 4096 IN IF low < 2048 THEN low ELSE low - 4096

\* The API server takes a claim only for a positive size.
Claimable(mb) == ClaimMB(mb) > 0

----------------------------------------------------------------------------
\* gpuPerWorker as SyncJob sets it.
Asked(gpus) == IF gpus < 8 THEN gpus ELSE 8

\* GPURequiredPerReplica as the CPodJob has it: a zero is left out of the
\* request (omitempty), so the API server puts in the default of the CRD.
GpuPerWorker(gpus) == IF Asked(gpus) = 0 THEN 8 ELSE Asked(gpus)

WorkerReplicas(gpus) == IF gpus < 8 THEN 1 ELSE gpus \div 8

\* The GPUs that a job gets.
Granted(gpus) == GpuPerWorker(gpus) * WorkerReplicas(gpus)

----------------------------------------------------------------------------
GB == 1024 * 1024 * 1024

\* The claim for a model, in GB: the ceiling of the bytes of the files at the
\* top level of its repository.  The files in folders are not counted, since
\* Recursive never reaches the hub (Query() returns a copy).  The code divides
\* in float64, which is exact for fewer than 2^53 bytes.
ModelSize(top) == -((-top) \div GB)
=============================================================================
