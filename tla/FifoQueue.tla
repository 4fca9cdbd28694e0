------------------------------ MODULE FifoQueue ------------------------------
(***************************************************************************)
(* What a queue promises its users, whatever it is made of: a value that    *)
(* was accepted is handed out at most once, in the order of acceptance.     *)
(* async_queue (module AsyncQueue) is shown to implement this.              *)
(***************************************************************************)
EXTENDS Sequences

CONSTANT Value

VARIABLES contents,    \* the accepted values nobody has received yet
          received     \* the values handed out, in the order of the hand-outs

fifoVars == <<contents, received>>

FifoInit == contents = <<>> /\ received = <<>>

Put(v) == /\ contents' = Append(contents, v)
          /\ UNCHANGED received

Take == /\ contents # <<>>
        /\ received' = Append(received, Head(contents))
        /\ contents' = Tail(contents)

FifoNext == Take \/ \E v \in Value : Put(v)

FifoSpec == FifoInit /\ [][FifoNext]_fifoVars
=============================================================================
