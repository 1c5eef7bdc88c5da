---------------------------- MODULE FileTransfer ----------------------------
(***************************************************************************)
(* Files of a desktop through the API: GetStatDesktopFile,                 *)
(* GetDownloadDesktopFile and PutDesktopFile in the app, the client and    *)
(* the requests of pkg/proxyproto, and handleStat, handleGet and handlePut *)
(* in the proxy.                                                           *)
(*                                                                         *)
(* A connection carries records, one for each Write, as TLS does: a read   *)
(* takes from the first record only. readString makes a new scanner each   *)
(* time, and what the scanner has read beyond the end of the line is lost. *)
(* A record is a sequence of cells: a string ends with a newline, and may  *)
(* have others in it.                                                      *)
(***************************************************************************)
EXTENDS Integers, SequencesExt

CONSTANTS Names,       \* names of files, sequences of cells
          FileType,    \* the content type of what is sent
          Content,     \* the content of the file, a sequence of cells
          Encoded,     \* the cell for each number: eight bytes on the wire
          Room,        \* records in flight one way
          MaxCuts      \* bound: connections that break

Newline == "\n"

ASSUME TransferAssumption ==
    /\ Room \in Nat \ {0} /\ MaxCuts \in Nat
    /\ <<>> \notin Names
    /\ \A s \in Names \cup {FileType, Content} : s \in Seq(ToSet(s))
    /\ Newline \notin ToSet(FileType)
    /\ 0..Len(Content) \subseteq DOMAIN Encoded
    /\ \A m, n \in DOMAIN Encoded : Encoded[m] = Encoded[n] => m = n

VARIABLES file,      \* the file asked for or sent: what is done, and its name
          asking,    \* the request in the app: where it is, what it read, what it answered
          sending,   \* records the app has yet to write, and whether it still does
          serving,   \* the handler in the proxy
          wire,      \* the records in flight either way
          ends,      \* who still has the connection open
          disk,      \* the uploaded file in the desktop
          cuts

transferVars == <<file, asking, sending, serving, wire, ends, disk, cuts>>

Absent == <<"absent">>
Ok == <<"ok">>
Failed == <<"failed">>

TransferTypeOK ==
    /\ file \in [op : {"stat", "get", "put"}, name : Names, stands : BOOLEAN]
    /\ asking.at \in {"send", "status", "name", "type", "size", "body", "sent", "end"}
    /\ sending.at \in {"off", "write", "report", "end"}
    /\ serving.at \in {"path", "size", "look", "copy", "write", "end"}
    /\ ends \subseteq {"app", "proxy"}
    /\ Len(wire.up) <= Room /\ Len(wire.down) <= Room
    /\ cuts \in 0..MaxCuts

Nothing == Encoded[0]

Line(s) == Append(s, Newline)
HasNewline(r) == Newline \in ToSet(r)

(* What a client of the API gets to know. *)
NoAnswer == [code |-> 0, name |-> <<>>, type |-> <<>>, size |-> Nothing, body |-> <<>>]

(* What readString returns of a record: all up to the first newline. *)
FirstLine(r) ==
    IF HasNewline(r) THEN SubSeq(r, 1, SelectInSeq(r, LAMBDA c : c = Newline) - 1) ELSE r

(* readString: the next record is read, and the scanner dropped with what  *)
(* is left of it. At the end of the connection it returns the empty string *)
(* and no error.                                                           *)
NextString(w) == IF w = <<>> THEN <<>> ELSE FirstLine(Head(w))
Ready(w, open) == w # <<>> \/ ~ open
After(w) == IF w = <<>> THEN w ELSE Tail(w)

(* Broken: the name and the type of a response go out in one Write. *)
ResponseTogether(name) ==
    <<Ok, Line(name) \o Line(FileType), <<Encoded[Len(Content)]>> >> \o [i \in DOMAIN Content |-> <<Content[i]>>]

(* The Writes of FGetResponse.send after WriteStatus. *)
Response(name) ==
    <<Ok, Line(name), Line(FileType), <<Encoded[Len(Content)]>> >> \o [i \in DOMAIN Content |-> <<Content[i]>>]

(* The Writes of a request: a path, or the name, size and body of a file. *)
RequestRecords(f) ==
    IF f.op = "put"
    THEN <<Line(f.name), <<Encoded[Len(Content)]>> >> \o [i \in DOMAIN Content |-> <<Content[i]>>]
    ELSE <<Line(f.name)>>

(* The type of the request has been written and read. stands: the path is  *)
(* there, and may be read or written. The name of an upload is sanitized.  *)
TransferInit ==
    /\ file \in [op : {"stat", "get", "put"}, name : Names, stands : BOOLEAN]
    /\ file.op = "put" => ~ HasNewline(file.name)
    /\ asking = [at |-> IF file.op = "put" THEN "status" ELSE "send", answer |-> NoAnswer]
    /\ sending = [at |-> "write", todo |-> RequestRecords(file)]
    /\ serving = [at |-> "path", todo |-> <<>>, path |-> <<>>, size |-> Nothing]
    /\ wire = [up |-> <<>>, down |-> <<>>]
    /\ ends = {"app", "proxy"}
    /\ disk = Absent
    /\ cuts = 0

CloseBy(p) == ends' = ends \ {p}
Answer(c) == asking' = [at |-> "end", answer |-> [asking.answer EXCEPT !.code = c]]

-----------------------------------------------------------------------------
(* The app.                                                                *)

(* A record is written, by the goroutine of PutFile in the case of put. *)
AppWrites ==
    /\ sending.at = "write" /\ sending.todo # <<>>
    /\ IF ends = {"app", "proxy"}
       THEN /\ Len(wire.up) < Room
            /\ wire' = [wire EXCEPT !.up = Append(@, Head(sending.todo))]
            /\ sending' = [sending EXCEPT !.todo = Tail(@)]
       ELSE sending' = [sending EXCEPT !.at = "report"] /\ UNCHANGED wire
    /\ UNCHANGED <<file, asking, serving, ends, disk, cuts>>

AppWrote ==
    /\ sending.at = "write" /\ sending.todo = <<>>
    /\ sending' = [sending EXCEPT !.at = "report"]
    /\ UNCHANGED <<file, asking, serving, wire, ends, disk, cuts>>

(* Without a goroutine: the error, or the way to the status. *)
AppSent ==
    /\ asking.at = "send" /\ sending.at = "report"
    /\ sending' = [sending EXCEPT !.at = "end"]
    /\ IF sending.todo = <<>>
       THEN asking' = [asking EXCEPT !.at = "status"] /\ UNCHANGED ends
       ELSE Answer(400) /\ CloseBy("app")
    /\ UNCHANGED <<file, serving, wire, disk, cuts>>

(* ReadStatus, which closes the connection unless it is Ok. *)
AppReadsStatus ==
    /\ asking.at = "status" /\ Ready(wire.down, "proxy" \in ends)
    /\ IF wire.down # <<>> /\ Head(wire.down) = Ok
       THEN /\ \/ file.op = "put" /\ asking' = [asking EXCEPT !.at = "sent"]
               \/ file.op = "get" /\ asking' = [asking EXCEPT !.at = "name"]
               \/ file.op = "stat" /\ asking' = [at |-> "body", answer |-> [asking.answer EXCEPT !.code = 200]]
            /\ UNCHANGED ends
       ELSE Answer(400) /\ CloseBy("app")
    /\ wire' = [wire EXCEPT !.down = After(@)]
    /\ UNCHANGED <<file, sending, serving, disk, cuts>>

(* PutFile blocks until the goroutine says that all is sent. When ReadStatus *)
(* failed nobody receives, and the goroutine stays at "report".            *)
AppPutDone ==
    /\ asking.at = "sent" /\ sending.at = "report"
    /\ Answer(IF sending.todo = <<>> THEN 200 ELSE 400)
    /\ sending' = [sending EXCEPT !.at = "end"]
    /\ CloseBy("app")
    /\ UNCHANGED <<file, serving, wire, disk, cuts>>

(* FGetResponse.recv *)
AppReadsName ==
    /\ asking.at = "name" /\ Ready(wire.down, "proxy" \in ends)
    /\ asking' = [at |-> "type", answer |-> [asking.answer EXCEPT !.name = NextString(wire.down)]]
    /\ wire' = [wire EXCEPT !.down = After(@)]
    /\ UNCHANGED <<file, sending, serving, ends, disk, cuts>>

AppReadsType ==
    /\ asking.at = "type" /\ Ready(wire.down, "proxy" \in ends)
    /\ asking' = [at |-> "size", answer |-> [asking.answer EXCEPT !.type = NextString(wire.down)]]
    /\ wire' = [wire EXCEPT !.down = After(@)]
    /\ UNCHANGED <<file, sending, serving, ends, disk, cuts>>

(* With the size the response is complete, and its header is sent. *)
AppReadsSize ==
    /\ asking.at = "size" /\ Ready(wire.down, "proxy" \in ends)
    /\ IF wire.down # <<>>
       THEN /\ asking' = [at |-> "body",
                       answer |-> [asking.answer EXCEPT !.code = 200, !.size = Head(Head(wire.down))]]
            /\ UNCHANGED ends
       ELSE Answer(400) /\ CloseBy("app")
    /\ wire' = [wire EXCEPT !.down = After(@)]
    /\ UNCHANGED <<file, sending, serving, disk, cuts>>

(* io.Copy to the client, until the connection ends. *)
AppCopies ==
    /\ asking.at = "body" /\ Ready(wire.down, "proxy" \in ends)
    /\ IF wire.down # <<>>
       THEN /\ asking' = [asking EXCEPT !.answer.body = @ \o Head(wire.down)]
            /\ UNCHANGED ends
       ELSE asking' = [asking EXCEPT !.at = "end"] /\ CloseBy("app")
    /\ wire' = [wire EXCEPT !.down = After(@)]
    /\ UNCHANGED <<file, sending, serving, disk, cuts>>

-----------------------------------------------------------------------------
(* The proxy.                                                              *)

(* WriteError: a status and a message. *)
Refuse == serving' = [serving EXCEPT !.at = "write", !.todo = <<Failed, Line(<<"message">>)>>]

(* recv of a request: the path or the name. *)
ReadPath ==
    /\ serving.at = "path" /\ Ready(wire.up, "app" \in ends)
    /\ serving' = [serving EXCEPT !.path = NextString(wire.up),
                                  !.at = IF file.op = "put" THEN "size" ELSE "look"]
    /\ wire' = [wire EXCEPT !.up = After(@)]
    /\ UNCHANGED <<file, asking, sending, ends, disk, cuts>>

ReadSize ==
    /\ serving.at = "size" /\ Ready(wire.up, "app" \in ends)
    /\ IF wire.up # <<>>
       THEN serving' = [serving EXCEPT !.size = Head(Head(wire.up)), !.at = "look"]
       ELSE Refuse
    /\ wire' = [wire EXCEPT !.up = After(@)]
    /\ UNCHANGED <<file, asking, sending, ends, disk, cuts>>

(* The path that was read is looked up in the home directory, or the file  *)
(* is created in Uploads. A file without content is not sent: its header   *)
(* cannot be read.                                                         *)
Look ==
    /\ serving.at = "look"
    /\ IF ~ file.stands \/ (file.op = "get" /\ Content = <<>>)
       THEN Refuse /\ UNCHANGED disk
       ELSE \/ /\ file.op = "put"
               /\ disk' = <<>>
               /\ serving' = [serving EXCEPT !.at = "copy"]
            \/ /\ file.op = "get"
               /\ serving' = [serving EXCEPT !.at = "write", !.todo = Response(serving.path)]
               /\ UNCHANGED disk
            \/ /\ file.op = "stat"
               /\ serving' = [serving EXCEPT !.at = "write", !.todo = <<Ok, <<"stat">> >>]
               /\ UNCHANGED disk
    /\ UNCHANGED <<file, asking, sending, wire, ends, cuts>>

(* CopyN: as many bytes as the request says, or an error, which leaves the *)
(* file as far as it came. Giving the file to its user may fail at last.   *)
Copy ==
    /\ serving.at = "copy"
    /\ IF Encoded[Len(disk)] = serving.size
       THEN /\ serving' = [serving EXCEPT !.at = "write", !.todo = <<Ok>>] \/ Refuse
            /\ UNCHANGED <<wire, disk>>
       ELSE /\ Ready(wire.up, "app" \in ends)
            /\ IF wire.up # <<>>
               THEN disk' = disk \o Head(wire.up) /\ UNCHANGED serving
               ELSE Refuse /\ UNCHANGED disk
            /\ wire' = [wire EXCEPT !.up = After(@)]
    /\ UNCHANGED <<file, asking, sending, ends, cuts>>

ProxyWrites ==
    /\ serving.at = "write" /\ serving.todo # <<>> /\ ends = {"app", "proxy"}
    /\ Len(wire.down) < Room
    /\ wire' = [wire EXCEPT !.down = Append(@, Head(serving.todo))]
    /\ serving' = [serving EXCEPT !.todo = Tail(@)]
    /\ UNCHANGED <<file, asking, sending, ends, disk, cuts>>

(* All is written, or cannot be: the connection is closed. What the app    *)
(* sent and nobody read makes it break, and answers in flight may be lost. *)
ProxyCloses ==
    /\ serving.at = "write" /\ (serving.todo = <<>> \/ ends # {"app", "proxy"})
    /\ serving' = [serving EXCEPT !.at = "end"]
    /\ CloseBy("proxy")
    /\ wire' = wire \/ (wire.up # <<>> /\ wire' = [wire EXCEPT !.down = <<>>])
    /\ UNCHANGED <<file, asking, sending, disk, cuts>>

(* The connection breaks: either side reads what has arrived, and no more. *)
Cut ==
    /\ ends # {} /\ cuts < MaxCuts
    /\ cuts' = cuts + 1
    /\ ends' = {}
    /\ \E i \in 0..Len(wire.up), j \in 0..Len(wire.down) :
         wire' = [up |-> SubSeq(wire.up, 1, i), down |-> SubSeq(wire.down, 1, j)]
    /\ UNCHANGED <<file, asking, sending, serving, disk>>

-----------------------------------------------------------------------------

AppTransfers ==
    \/ AppWrites \/ AppWrote \/ AppSent \/ AppReadsStatus \/ AppPutDone
    \/ AppReadsName \/ AppReadsType \/ AppReadsSize \/ AppCopies

ProxyTransfers == ReadPath \/ ReadSize \/ Look \/ Copy \/ ProxyWrites \/ ProxyCloses

TransferNext == AppTransfers \/ ProxyTransfers \/ Cut

TransferSpec == TransferInit /\ [][TransferNext]_transferVars

-----------------------------------------------------------------------------
(* What is acknowledged is true, also if the connection breaks. A download *)
(* that was answered with 200 has the name, type and size of the file, and *)
(* nothing but its content from the beginning; an upload that was, is      *)
(* complete in the desktop: of the fields that follow one another on the   *)
(* wire none is swallowed by the reader of the one before.                 *)
TransferIsTrue ==
    asking.answer.code = 200 =>
      CASE file.op = "get" ->
             /\ asking.answer.name = FirstLine(file.name) /\ asking.answer.type = FileType
             /\ asking.answer.size = Encoded[Len(Content)] /\ IsPrefix(asking.answer.body, Content)
        [] file.op = "put" -> disk = Content
        [] file.op = "stat" -> asking.answer.body \in {<<>>, <<"stat">>}
=============================================================================
