---------------------------- MODULE MCCGIWorker ----------------------------
(* Requests for CGIWorker: one of each kind that the scripts tell apart. *)
EXTENDS CGIWorker

Request(method, file, data, length) ==
  [method |-> method, file |-> file, data |-> data, length |-> length]

MCRequests ==
  { Request("GET", "adder", "good", None), Request("GET", "adder", "bad", None),
    Request("GET", "adder", "one", 1),
    Request("POST", "adder", "good", 1), Request("POST", "adder", "good", 0),
    Request("POST", "adder", "bad", 2),
    Request("POST", "adder", "good", None), Request("HEAD", "adder", "good", None),
    Request("GET", "missing", "good", None), Request("POST", "missing", "good", 1),
    Request("GET", "big", "good", None), Request("GET", "exit", "good", None) }
============================================================================
