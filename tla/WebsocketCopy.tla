--------------------------- MODULE WebsocketCopy ---------------------------
(***************************************************************************)
(* io.Copy from the websocket of a browser to the connection of the proxy, *)
(* as ServeWebsocketProxy runs it: GorillaReadWriter.Read gives it the     *)
(* messages of the browser through a slice of a fixed size, and keeps what *)
(* does not fit. A byte is its message and its place in it.                *)
(***************************************************************************)
EXTENDS Integers, SequencesExt

CONSTANTS Size,      \* the length of the slice io.Copy reads into
          Lengths,   \* lengths of messages
          MaxSent    \* bound: messages of the browser

VARIABLES sent,       \* the lengths of the messages the browser has sent
          received,   \* how many of them have been read
          buffered,   \* the field buffered
          copied      \* the bytes written to the proxy

copyVars == <<sent, received, buffered, copied>>

Message(i) == [j \in 1..sent[i] |-> <<i, j>>]

CopyTypeOK ==
    /\ sent \in Seq(Lengths) /\ received \in 0..Len(sent)
    /\ \A r \in ToSet(buffered) \cup ToSet(copied) : r[1] \in 1..received /\ r[2] \in 1..sent[r[1]]

CopyInit == sent = <<>> /\ received = 0 /\ buffered = <<>> /\ copied = <<>>

Upto(s, n) == SubSeq(s, 1, n)
Beyond(s, n) == SubSeq(s, n + 1, Len(s))
Smaller(m, n) == IF m < n THEN m ELSE n

Send(l) ==
    /\ Len(sent) < MaxSent
    /\ sent' = Append(sent, l)
    /\ UNCHANGED <<received, buffered, copied>>

(* The buffered rest fills the slice and more. *)
ReadRest ==
    /\ Len(buffered) > Size
    /\ copied' = copied \o Upto(buffered, Size)
    /\ buffered' = Beyond(buffered, Size)
    /\ UNCHANGED <<sent, received>>

(* The rest, if there is one, fits. Read goes on to the next message and   *)
(* puts what fits of it behind the rest, but returns the number of its     *)
(* bytes only, and io.Copy writes that many from the start of the slice.   *)
ReadNext ==
    /\ Len(buffered) <= Size /\ received < Len(sent)
    /\ LET body == Message(received + 1)
           pos == Len(buffered)
           size == Smaller(Size - pos, Len(body))
       IN  /\ copied' = copied \o Upto(buffered \o Upto(body, size), size)
           /\ buffered' = Beyond(body, size)
    /\ received' = received + 1
    /\ UNCHANGED sent

CopyNext == (\E l \in Lengths : Send(l)) \/ ReadRest \/ ReadNext

CopySpec == CopyInit /\ [][CopyNext]_copyVars

(* What the proxy is sent is what the browser sent, in order and without a *)
(* gap.                                                                    *)
CopiedInOrder == IsPrefix(copied, FlattenSeq([i \in 1..received |-> Message(i)]))
=============================================================================
