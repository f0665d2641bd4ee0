------------------------ MODULE MCCoroutineExamples ------------------------
(* The Tasks of the program, area() and one like test_sleep(), the second    *)
(* with a Task of its own between two sleeps.                                *)
EXTENDS CoroutineExamples
MCBody == [SyncWaitTask |-> <<"area">>, area |-> <<"height", "width">>,
           height |-> <<>>, width |-> <<>>,
           Detached |-> <<"test_sleep">>, test_sleep |-> <<"sleep", "inner", "sleep", "sleep">>,
           inner |-> <<"sleep", "leaf">>, leaf |-> <<"sleep">>]
=============================================================================
