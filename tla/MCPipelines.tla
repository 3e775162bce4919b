----------------------------- MODULE MCPipelines -----------------------------
(* buffered and diffused, one of them at a time: with an inner sequence of up  *)
(* to five pairs and up to three calls at a time.  diffused is run without     *)
(* ends of slices, and with two calls at least.                               *)
EXTENDS Pipelines

MCCases ==
  [kind : {"buffered"}, length : {0, 2, 5}, size : {1, 2, 3}, sliced : {FALSE}]
    \union [kind : {"buffered"}, length : {4}, size : {1, 2, 3}, sliced : {TRUE}]
    \union [kind : {"diffused"}, length : {0, 2, 4}, size : {2, 3}, sliced : {FALSE}]

==============================================================================
