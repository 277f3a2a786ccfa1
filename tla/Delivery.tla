------------------------------- MODULE Delivery -------------------------------
(***************************************************************************)
(* process_message: what becomes of a WebSocket frame.  One thread runs     *)
(* mongoose on port 8001, so one frame is worked on at a time, on the one   *)
(* MySQL connection of the thread.  The check and the creation of the room  *)
(* are one step here (module ChatRooms has their queries), and so is        *)
(* send_tcp_request (module TcpExchange).  What handle_encrypt_message does  *)
(* with a secret frame is in module SecretMessages.                        *)
(***************************************************************************)
EXTENDS Naturals, Sequences

CONSTANTS Frames,    \* frames that clients send, each at most once
          Senders, Keys,
          MaxTime,   \* bound of the clock, which MySQL reads in seconds
          Faults     \* TRUE: queries, connections and file operations may fail

ASSUME FramesAssumption == Frames \subseteq Nat \ {0}
ASSUME SendersAssumption == Senders # {} /\ Keys # {}
ASSUME MaxTimeAssumption == MaxTime \in Nat \ {0}
ASSUME FaultsAssumption == Faults \in BOOLEAN

VARIABLES frame,    \* what is in each text frame; it never changes
          fate,     \* of each frame: unsent, waiting, taken, done or lost
          inbox,    \* frames that mongoose has not handed over, in order
          ws,       \* the WebSocket thread: where process_message stands
          wsdb,     \* global_db_conn
          told,     \* what its client was sent about each frame
          chat,     \* the rows of chat_message, in order of insertion
          unsaved,  \* history: frames whose INSERT failed, which is only logged
          clock

deliveryVars == <<frame, fate, inbox, ws, wsdb, told, chat, unsaved, clock>>

NoFrame == 0

NoKey == 0

\* The key of a plain frame is not read.
Contents == [kind : {"plain"}, sender : Senders, key : {NoKey}]
            \cup [kind : {"secret"}, sender : Senders, key : Keys]

\* What send_tcp_request may return apart from NULL: what one recv has got, all of the
\* server's reply or a part of it; one value here.
Replies == {"reply"}

WsIdle == [pc |-> "idle", frame |-> NoFrame, text |-> "none"]
WsOff == [WsIdle EXCEPT !.pc = "off"]

WsBusyPcs == {"exchange", "embed", "encode", "insert", "save", "tell"}

DeliveryTypeOK ==
  /\ frame \in [Frames -> Contents]
  /\ fate \in [Frames -> {"unsent", "waiting", "taken", "done", "lost"}]
  /\ inbox \in Seq(Frames)
  /\ ws \in [pc : {"off", "idle"} \cup WsBusyPcs, frame : Frames \cup {NoFrame},
             text : Replies \cup {"none", "image"}]
  /\ wsdb \in {"none", "open", "lost"}
  /\ told \in [Frames -> Seq(Replies \cup {"error", "http"})]
  /\ chat \in Seq([frame : Frames, at : 1..MaxTime, text : Replies \cup {"image"}])
  /\ unsaved \subseteq Frames
  /\ clock \in 1..MaxTime

DeliveryInit ==
  /\ frame \in [Frames -> Contents]
  /\ fate = [f \in Frames |-> "unsent"]
  /\ inbox = <<>>
  /\ ws = WsOff
  /\ wsdb = "none"
  /\ told = [f \in Frames |-> <<>>]
  /\ chat = <<>>
  /\ unsaved = {}
  /\ clock = 1
-----------------------------------------------------------------------------
\* A client sends a frame to a server that listens.
ClientSends(f) ==
  /\ ws.pc # "off"
  /\ fate[f] = "unsent"
  /\ fate' = [fate EXCEPT ![f] = "waiting"]
  /\ inbox' = Append(inbox, f)
  /\ UNCHANGED <<frame, ws, wsdb, told, chat, unsaved, clock>>

\* process_message returns, after these answers.
Ends(f, answers) ==
  /\ fate' = [fate EXCEPT ![f] = "done"]
  /\ told' = [told EXCEPT ![f] = answers]
  /\ ws' = WsIdle

\* A query of this thread fails; when the connection broke, it stays broken.
WsQueryFails ==
  /\ Faults \/ wsdb = "lost"
  /\ wsdb' \in {wsdb, "lost"}

\* The next frame.  (One that is no text is logged, and changes nothing.)  A field is
\* missing, the two are no friends, a query for the room fails, or a secret comes without
\* a key: an error.
WsReceives ==
  /\ ws.pc = "idle"
  /\ inbox # <<>>
  /\ inbox' = Tail(inbox)
  /\ LET f == Head(inbox) IN
       \/ Ends(f, <<"error">>) /\ (WsQueryFails \/ UNCHANGED wsdb)
       \/ /\ wsdb = "open"
          /\ ws' = [ws EXCEPT !.pc = "exchange", !.frame = f]
          /\ fate' = [fate EXCEPT ![f] = "taken"]
          /\ UNCHANGED <<wsdb, told>>
  /\ UNCHANGED <<frame, chat, unsaved, clock>>

\* send_tcp_request.  For a secret frame its result is not looked at.
WsExchanges ==
  /\ ws.pc = "exchange"
  /\ \/ /\ frame[ws.frame].kind = "secret"
        /\ ws' = [ws EXCEPT !.pc = "embed"]
        /\ UNCHANGED <<fate, told>>
     \/ /\ frame[ws.frame].kind = "plain"
        /\ \/ Ends(ws.frame, <<"error">>)
           \/ /\ \E reply \in Replies : ws' = [ws EXCEPT !.pc = "save", !.text = reply]
              /\ UNCHANGED <<fate, told>>
  /\ UNCHANGED <<frame, inbox, wsdb, chat, unsaved, clock>>

Row(f, text) == [frame |-> f, at |-> clock, text |-> text]

WsSaves_Retries ==
  /\ ws.pc = "save"
  /\ \/ /\ wsdb = "open"
        /\ chat' = Append(chat, Row(ws.frame, ws.text))
        /\ \/ Ends(ws.frame, <<>>) /\ UNCHANGED wsdb
           \/ Faults /\ UNCHANGED <<wsdb, ws, fate, told>>
     \/ WsQueryFails /\ UNCHANGED <<chat, ws, fate, told>>
  /\ UNCHANGED <<frame, inbox, unsaved, clock>>

WsSaves_NoElse ==
  /\ ws.pc = "save"
  /\ wsdb = "open"
  /\ chat' = Append(chat, Row(ws.frame, ws.text))
  /\ Ends(ws.frame, <<"error">>)
  /\ UNCHANGED <<frame, inbox, wsdb, unsaved, clock>>

\* save_message, whose failure is only logged (its INSERT may have taken effect, too);
\* a secret frame ends with it, and its client is told nothing.
WsSaves ==
  /\ ws.pc = "save"
  /\ \/ /\ wsdb = "open"
        /\ chat' = Append(chat, Row(ws.frame, ws.text))
        /\ wsdb' \in (IF Faults THEN {"open", "lost"} ELSE {"open"})
        /\ UNCHANGED unsaved
     \/ /\ WsQueryFails
        /\ unsaved' = unsaved \cup {ws.frame}
        /\ UNCHANGED chat
  /\ \/ /\ frame[ws.frame].kind = "plain"
        /\ ws' = [ws EXCEPT !.pc = "tell"]
        /\ UNCHANGED <<fate, told>>
     \/ frame[ws.frame].kind = "secret" /\ Ends(ws.frame, <<>>)
  /\ UNCHANGED <<frame, inbox, clock>>

\* {"message": ...}: the client is sent what was saved.
WsTells ==
  /\ ws.pc = "tell"
  /\ Ends(ws.frame, <<ws.text>>)
  /\ UNCHANGED <<frame, inbox, wsdb, chat, unsaved, clock>>

\* start_websocket_server connects, once in its life.  When that fails, the thread
\* returns: the process goes on without it, as if it had not started.
WsStarts ==
  /\ ws.pc = "off"
  /\ ws' = WsIdle
  /\ wsdb' = "open"
  /\ UNCHANGED <<frame, fate, inbox, told, chat, unsaved, clock>>

\* The process ends: by a signal, a crash, or one of its calls of exit.
DeliveryDies ==
  /\ ws' = WsOff
  /\ wsdb' = "none"
  /\ inbox' = <<>>
  /\ fate' = [f \in Frames |-> IF fate[f] \in {"waiting", "taken"} THEN "lost" ELSE fate[f]]
  /\ UNCHANGED <<frame, told, chat, unsaved, clock>>

ClockTicks ==
  /\ clock < MaxTime
  /\ clock' = clock + 1
  /\ UNCHANGED <<frame, fate, inbox, ws, wsdb, told, chat, unsaved>>
-----------------------------------------------------------------------------
(* Properties.                                                             *)

IsStored(f, text) == \E i \in 1..Len(chat) : chat[i].frame = f /\ chat[i].text = text

Stored(f) == \E i \in 1..Len(chat) : chat[i].frame = f

\* What a client is told is what became of its frame (websocket_server.c:16-72): a plain
\* one has one answer; {"message": x} means that x was saved, or that its INSERT failed,
\* which is only logged; silence about a secret one means the same for its picture; and
\* an error means that nothing was saved, whichever step failed.
AnswersMatchStore ==
  \A f \in Frames :
    /\ fate[f] = "done" /\ frame[f].kind = "plain" =>
         \/ told[f] = <<"error">>
         \/ \E x \in Replies : told[f] = <<x>> /\ (IsStored(f, x) \/ f \in unsaved)
    /\ fate[f] = "done" /\ frame[f].kind = "secret" =>
         \/ told[f] \in {<<"error">>, <<"http", "error">>}
         \/ told[f] = <<>> /\ (IsStored(f, "image") \/ f \in unsaved)
    /\ told[f] # <<>> /\ Stored(f) => told[f][Len(told[f])] # "error"

\* The sender's view: what it was told last.
Notice(f) == IF told[f] = <<>> THEN "none"
             ELSE IF told[f][Len(told[f])] = "error" THEN "error" ELSE "ok"

Notices == [f \in Frames |-> Notice(f)]
Kept == [i \in 1..Len(chat) |-> chat[i].frame]

TheMailbox == INSTANCE Mailbox WITH kept <- Kept, notice <- Notices

\* Messages are handled in order, one at a time, kept at most once, and refused only when
\* they were not kept, across lost connections and the death of the process between any
\* two steps of websocket_server.c:16-86.
ImplementsMailbox == TheMailbox!MailboxSpec

\* A frame that has reached the server ends, whatever fails: no path of process_message
\* stops the thread, on which all other frames wait.
FramesEnd == \A f \in Frames : fate[f] = "waiting" ~> fate[f] \in {"done", "lost"}
=============================================================================
