------------------------------ MODULE MCFront ------------------------------
(* Two workers on a pipeline of two synchrocells that fire and dissolve,   *)
(* or of a filter with two outputs and one such synchrocell, with and      *)
(* without a throttle on the input.                                        *)
EXTENDS FrontWorker

Pipe(k, n, t) == [kind |-> k, num |-> n, throttle |-> t]

MCPipelines == {Pipe(<<"cell", "cell", "output">>, 3, 2),
                Pipe(<<"dup", "cell", "output">>, 2, 1),
                Pipe(<<"dup", "cell", "output">>, 1, 0)}
=============================================================================
