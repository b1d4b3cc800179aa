---------------------------- MODULE MessageStream -----------------------------
(***************************************************************************)
(* What a WebSocket promises its reader: the messages of the server, each  *)
(* whole, in order and once, up to where the server breaks off; and only a *)
(* connection that is cut loses any.  Nothing is said of frames, bytes,    *)
(* calls or time-outs.                                                     *)
(***************************************************************************)
EXTENDS Naturals, Sequences

VARIABLES
    messages,   \* what the server has said
    received,   \* what the reader was given
    broken,     \* the server has closed, or broken the protocol
    cut,        \* the connection is lost
    over        \* the reader has given up

msVars == <<messages, received, broken, cut, over>>

Init ==
    /\ messages = <<>> /\ received = <<>>
    /\ broken = FALSE /\ cut = FALSE /\ over = FALSE

\* The server says something, perhaps its last word.
Say ==
    /\ ~broken /\ ~cut
    /\ messages' # <<>> /\ messages' = Append(messages, messages'[Len(messages')])
    /\ broken' \in BOOLEAN
    /\ UNCHANGED <<received, cut, over>>

BreakOff ==
    /\ ~broken /\ ~cut
    /\ broken' = TRUE
    /\ UNCHANGED <<messages, received, cut, over>>

Lose ==
    /\ ~cut
    /\ cut' = TRUE
    /\ UNCHANGED <<messages, received, broken, over>>

\* The reader has the next message; the last word of the server ends its work.
Receive ==
    /\ ~over
    /\ Len(received) < Len(messages)
    /\ received' = Append(received, messages[Len(received) + 1])
    /\ over' => broken /\ received' = messages
    /\ UNCHANGED <<messages, broken, cut>>

\* The reader gives up: it has everything and the server broke off, or the
\* connection is lost, as it may find out only now.
GiveUp ==
    /\ ~over /\ over' = TRUE
    /\ \/ broken /\ received = messages /\ UNCHANGED cut
       \/ cut' = TRUE
    /\ UNCHANGED <<messages, received, broken>>

Next == Say \/ BreakOff \/ Lose \/ Receive \/ GiveUp

Spec == Init /\ [][Next]_msVars

=============================================================================
