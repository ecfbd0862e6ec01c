------------------------------ MODULE MCTransport ------------------------------
EXTENDS Transport

Job(execution, workers, blocks, flux, compiled, consume) ==
  [execution |-> execution, workers |-> workers, blocks |-> blocks, flux |-> flux,
   compiled |-> compiled, consume |-> consume, single |-> FALSE]
Device(execution, blocks, flux, single) ==
  [Job(execution, 1, blocks, flux, TRUE, TRUE) EXCEPT !.single = single]

MCJobs ==
  {Job("blocks", 2, 3, TRUE, TRUE, TRUE), Job("serial", 2, 2, FALSE, TRUE, TRUE),
   Job("spatial", 2, 2, TRUE, TRUE, TRUE),
   Job("one_step", 2, 1, TRUE, TRUE, FALSE), Job("one_step", 1, 2, FALSE, TRUE, TRUE),
   Job("one_step", 1, 2, FALSE, TRUE, FALSE), Job("one_step", 1, 1, TRUE, FALSE, FALSE),
   Job("trace", 2, 1, TRUE, TRUE, FALSE),
   Device("cuda", 2, TRUE, FALSE), Device("cuda", 1, FALSE, TRUE),
   Device("cuda_upload", 1, TRUE, TRUE), Device("cuda_upload", 2, FALSE, FALSE)}
===============================================================================
