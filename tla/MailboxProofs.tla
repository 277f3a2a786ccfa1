------------------------------ MODULE MailboxProofs ----------------------------
(***************************************************************************)
(* SecretMessages implements Mailbox: every step of the two threads, of the *)
(* clients and of the environment is a step of the mailbox, or none.        *)
(***************************************************************************)
EXTENDS SecretMessagesProofs

LEMMA KeptIs ==
  ASSUME SecretMessagesTypeOK
  PROVE  /\ Kept \in Seq(Frames) /\ Len(Kept) = Len(chat)
         /\ \A i \in 1..Len(chat) : Kept[i] = chat[i].frame
<1>1. \A i \in 1..Len(chat) : chat[i].frame \in Frames
  BY Types
<1>2. Len(chat) \in Nat
  BY Types
<1>3. Kept \in [1..Len(chat) -> Frames]
  BY <1>1 DEF Kept
<1>. QED BY <1>1, <1>2, <1>3, SMT DEF Kept

LEMMA KeptMeansStored ==
  ASSUME SecretMessagesTypeOK, NEW f \in Frames
  PROVE  TheMailbox!IsKept(f) <=> Stored(f)
BY KeptIs DEF TheMailbox!IsKept, Stored

\* A row that is added to the table is kept.
LEMMA KeptGrows ==
  ASSUME SecretMessagesTypeOK, NEW row \in ChatRow, chat' = Append(chat, row)
  PROVE  Kept' = Append(Kept, row.frame)
<1>1. /\ chat' \in Seq(ChatRow) /\ Len(chat') \in Nat
      /\ Len(chat') = Len(chat) + 1 /\ chat'[Len(chat) + 1] = row
      /\ \A i \in 1..Len(chat) : chat'[i] = chat[i]
      /\ \A i \in 1..Len(chat') : i \in 1..Len(chat) \/ i = Len(chat) + 1
  BY ChatAppends DEF ChatGrows
<1>2. row.frame \in Frames
  BY DEF ChatRow
<1>3. /\ Append(Kept, row.frame) \in Seq(Frames)
      /\ Len(Append(Kept, row.frame)) = Len(chat) + 1
      /\ \A i \in 1..Len(chat) : Append(Kept, row.frame)[i] = chat[i].frame
      /\ Append(Kept, row.frame)[Len(chat) + 1] = row.frame
  BY <1>2, KeptIs, AppendProperties
<1>4. \A i \in 1..Len(chat') : chat'[i].frame \in Frames
  <2>1. \A i \in 1..Len(chat') : chat'[i] \in ChatRow
    BY <1>1, ElementOfSeq
  <2>. QED BY <2>1 DEF ChatRow
<1>5. /\ Kept' \in Seq(Frames) /\ Len(Kept') = Len(chat')
      /\ \A i \in 1..Len(chat') : Kept'[i] = chat'[i].frame
  <2>1. Kept' \in [1..Len(chat') -> Frames]
    BY <1>4 DEF Kept
  <2>. QED BY <1>1, <2>1, SMT DEF Kept
<1>6. \A i \in 1..Len(Kept') : Kept'[i] = Append(Kept, row.frame)[i]
  BY <1>1, <1>3, <1>5
<1>. QED BY <1>1, <1>3, <1>5, <1>6, SeqEqual

LEMMA NoticesStay ==
  ASSUME \A g \in Frames : told'[g] = told[g]
  PROVE  Notices' = Notices
BY DEF Notices, Notice

\* What a new answer does to the notices.
LEMMA NoticesChange ==
  ASSUME IInv, NEW f \in Frames, NEW answers \in Answers, told' = [told EXCEPT ![f] = answers]
  PROVE  Notices' = [Notices EXCEPT ![f] =
           IF answers = <<>> THEN "none"
           ELSE IF answers[Len(answers)] = "error" THEN "error" ELSE "ok"]
<1>1. told'[f] = answers /\ \A g \in Frames : g # f => told'[g] = told[g]
  BY WsTypes DEF IInv
<1>. QED BY <1>1 DEF Notices, Notice

LEMMA LastOf ==
  /\ <<"error">> # <<>> /\ <<"error">>[Len(<<"error">>)] = "error"
  /\ <<"http", "error">> # <<>> /\ <<"http", "error">>[Len(<<"http", "error">>)] = "error"
  /\ \A x \in Replies : <<x>> # <<>> /\ <<x>>[Len(<<x>>)] # "error"
BY DEF Replies

\* An error ends a frame that was taken up and not kept.
LEMMA FailureIsEnd ==
  ASSUME IInv, ws.pc \in WsBusyPcs \ {"tell"}, NEW answers \in Answers,
         answers # <<>>, answers[Len(answers)] = "error",
         Ends(ws.frame, answers), inbox' = inbox, chat' = chat
  PROVE  \E f \in Frames : TheMailbox!End(f)
<1>1. PICK f \in Frames : f = ws.frame /\ fate[f] = "taken" /\ ~Stored(f)
  BY NobodyElse DEF IInv, Working
<1>2. fate' = [fate EXCEPT ![f] = "done"] /\ told' = [told EXCEPT ![f] = answers]
  BY <1>1 DEF Ends
<1>3. Notices' = [Notices EXCEPT ![f] = "error"]
  BY <1>2, NoticesChange
<1>4. Kept' = Kept
  BY DEF Kept
<1>5. ~TheMailbox!IsKept(f)
  BY <1>1, KeptMeansStored DEF IInv
<1>. QED BY <1>1, <1>2, <1>3, <1>4, <1>5 DEF TheMailbox!End

\* A step that neither ends, sends nor stores anything is no step of the mailbox.
LEMMA NothingHappens ==
  ASSUME UNCHANGED <<fate, inbox, told, chat>>
  PROVE  UNCHANGED TheMailbox!mailboxVars
BY DEF TheMailbox!mailboxVars, Kept, Notices, Notice

LEMMA ReceiptIsTakeOrRefuse ==
  ASSUME IInv, WsReceives
  PROVE  TheMailbox!Take \/ TheMailbox!Refuse
<1>1. /\ ws.pc = "idle" /\ inbox # <<>> /\ inbox' = Tail(inbox) /\ chat' = chat
  BY DEF WsReceives
<1>2. TheMailbox!NobodyIsTaken
  BY <1>1, NobodyElse DEF TheMailbox!NobodyIsTaken, WsBusyPcs
<1>3. PICK f \in Frames : f = Head(inbox)
  BY <1>1, Types, HeadTailProperties DEF IInv
<1>4. Kept' = Kept
  BY <1>1 DEF Kept
<1>5. CASE Ends(f, <<"error">>)
  <2>1. fate' = [fate EXCEPT ![f] = "done"] /\ told' = [told EXCEPT ![f] = <<"error">>]
    BY <1>5 DEF Ends
  <2>2. Notices' = [Notices EXCEPT ![f] = "error"]
    BY <2>1, NoticesChange, LastOf, Literals
  <2>. QED BY <1>1, <1>2, <1>3, <1>4, <2>1, <2>2 DEF TheMailbox!Refuse
<1>6. CASE fate' = [fate EXCEPT ![f] = "taken"] /\ UNCHANGED told
  <2>1. Notices' = Notices
    BY <1>6, NoticesStay
  <2>. QED BY <1>1, <1>2, <1>3, <1>4, <1>6, <2>1 DEF TheMailbox!Take
<1>. QED BY <1>3, <1>5, <1>6 DEF WsReceives

LEMMA ExchangeIsEndOrNothing ==
  ASSUME IInv, WsExchanges
  PROVE  (\E f \in Frames : TheMailbox!End(f)) \/ UNCHANGED TheMailbox!mailboxVars
<1>1. ws.pc \in WsBusyPcs \ {"tell"} /\ inbox' = inbox /\ chat' = chat
  BY DEF WsExchanges, WsBusyPcs
<1>2. CASE Ends(ws.frame, <<"error">>)
  BY <1>1, <1>2, FailureIsEnd, LastOf, Literals
<1>3. CASE UNCHANGED <<fate, told>>
  BY <1>1, <1>3, NothingHappens
<1>. QED BY <1>2, <1>3 DEF WsExchanges

LEMMA EncryptionIsEndOrNothing ==
  ASSUME IInv, Encryption
  PROVE  (\E f \in Frames : TheMailbox!End(f)) \/ UNCHANGED TheMailbox!mailboxVars
<1>1. /\ ws.pc \in WsBusyPcs \ {"tell"} /\ inbox' = inbox /\ chat' = chat
      /\ Ends(ws.frame, <<"http", "error">>) \/ UNCHANGED <<fate, told>>
  BY DEF Encryption, Embed, Encode, InsertSecret, Gives500, WsBusyPcs
<1>2. CASE Ends(ws.frame, <<"http", "error">>)
  BY <1>1, <1>2, FailureIsEnd, LastOf, Literals
<1>3. CASE UNCHANGED <<fate, told>>
  BY <1>1, <1>3, NothingHappens
<1>. QED BY <1>1, <1>2, <1>3

LEMMA SaveIsKeepOrEnd ==
  ASSUME IInv, WsSaves
  PROVE  (\E f \in Frames : TheMailbox!Keep(f) \/ TheMailbox!End(f))
         \/ UNCHANGED TheMailbox!mailboxVars
<1>1. ws.pc = "save" /\ inbox' = inbox
  BY DEF WsSaves
<1>2. PICK f \in Frames : f = ws.frame /\ fate[f] = "taken" /\ ~Stored(f) /\ told[f] = <<>>
  BY <1>1, NobodyElse DEF IInv, Working, WsBusyPcs
<1>3. PICK text \in Replies \cup {"image"} : text = ws.text
  BY <1>1 DEF IInv, Working
<1>4. ~TheMailbox!IsKept(f)
  BY <1>2, KeptMeansStored DEF IInv
<1>5. Kept' = Kept \/ Kept' = Append(Kept, f)
  <2>1. CASE chat' = chat
    BY <2>1 DEF Kept
  <2>2. CASE chat' = Append(chat, Row(ws.frame, ws.text))
    <3>0. clock \in 1..MaxTime
      BY Types DEF IInv
    <3>1. PICK row \in ChatRow : row = Row(ws.frame, ws.text) /\ row.frame = f
      <4>1. Row(f, text) \in ChatRow /\ Row(f, text).frame = f
        BY <1>2, <1>3, <3>0 DEF Row, ChatRow
      <4>. QED BY <1>2, <1>3, <4>1
    <3>2. chat' = Append(chat, row) /\ SecretMessagesTypeOK
      BY <2>2, <3>1 DEF IInv
    <3>3. Kept' = Append(Kept, row.frame)
      BY <3>2, KeptGrows
    <3>. QED BY <3>1, <3>3
  <2>. QED BY <2>1, <2>2 DEF WsSaves
<1>6. CASE UNCHANGED <<fate, told>>
  <2>1. Notices' = Notices
    BY <1>6, NoticesStay
  <2>2. CASE Kept' = Kept
    BY <1>1, <1>6, <2>1, <2>2 DEF TheMailbox!mailboxVars
  <2>3. CASE Kept' = Append(Kept, f)
    BY <1>1, <1>2, <1>4, <1>6, <2>1, <2>3 DEF TheMailbox!Keep
  <2>. QED BY <1>5, <2>2, <2>3
<1>7. CASE Ends(f, <<>>)
  <2>1. fate' = [fate EXCEPT ![f] = "done"] /\ told' = [told EXCEPT ![f] = <<>>]
    BY <1>7 DEF Ends
  <2>2. \A g \in Frames : told'[g] = told[g]
    BY <1>2, <2>1, WsTypes DEF IInv
  <2>3. Notices' = Notices
    BY <2>2, NoticesStay
  <2>. QED BY <1>1, <1>2, <1>4, <1>5, <2>1, <2>3 DEF TheMailbox!End
<1>. QED BY <1>2, <1>6, <1>7 DEF WsSaves

LEMMA TellingIsEnd ==
  ASSUME IInv, WsTells
  PROVE  \E f \in Frames : TheMailbox!End(f)
<1>1. ws.pc = "tell" /\ inbox' = inbox /\ chat' = chat
  BY DEF WsTells
<1>2. PICK f \in Frames : f = ws.frame /\ fate[f] = "taken"
  BY <1>1, NobodyElse DEF WsBusyPcs
<1>3. PICK x \in Replies : x = ws.text
  BY <1>1 DEF IInv, Working
<1>4. fate' = [fate EXCEPT ![f] = "done"] /\ told' = [told EXCEPT ![f] = <<x>>]
  BY <1>2, <1>3 DEF WsTells, Ends
<1>5. Notices' = [Notices EXCEPT ![f] = "ok"]
  BY <1>4, NoticesChange, LastOf, Literals
<1>6. Kept' = Kept
  BY <1>1 DEF Kept
<1>. QED BY <1>1, <1>2, <1>4, <1>5, <1>6 DEF TheMailbox!End

LEMMA DeathIsGoDown ==
  ASSUME ProcessEnds
  PROVE  TheMailbox!GoDown
BY DEF ProcessEnds, DeliveryDies, TheMailbox!GoDown, Kept, Notices, Notice

LEMMA SendingIsSend ==
  ASSUME NEW f \in Frames, ClientSends(f)
  PROVE  TheMailbox!Send(f)
BY DEF ClientSends, TheMailbox!Send, Kept, Notices, Notice

\* Every behaviour of the threads is one of the mailbox: what websocket_server.c:16-86 and
\* encryption.c:94-254 do with a frame, at whichever step a call fails or the process dies,
\* takes frames in order, keeps each at most once and refuses only what was not kept.
THEOREM SecretMessagesImplementMailbox == SecretMessagesSpec => ImplementsMailbox
<1>1. SecretMessagesInit => TheMailbox!MailboxInit
  <2>. SUFFICES ASSUME SecretMessagesInit PROVE TheMailbox!MailboxInit
    OBVIOUS
  <2>1. /\ fate = [f \in Frames |-> "unsent"] /\ inbox = <<>>
        /\ told = [f \in Frames |-> <<>>] /\ chat = <<>>
    BY DEF SecretMessagesInit, DeliveryInit
  <2>2. Notices = [f \in Frames |-> "none"]
    BY <2>1 DEF Notices, Notice
  <2>3. Kept = <<>>
    <3>1. SecretMessagesTypeOK
      BY InitIInv DEF IInv
    <3>2. Len(chat) = 0
      BY <2>1, EmptySeq
    <3>. QED BY <3>1, <3>2, KeptIs, EmptySeq
  <2>. QED BY <2>1, <2>2, <2>3 DEF TheMailbox!MailboxInit
<1>2. IInv /\ [SecretMessagesNext]_vars => [TheMailbox!MailboxNext]_(TheMailbox!mailboxVars)
  <2>. SUFFICES ASSUME IInv, [SecretMessagesNext]_vars
                PROVE  TheMailbox!MailboxNext \/ UNCHANGED TheMailbox!mailboxVars
    OBVIOUS
  <2>1. CASE WsThread
    BY <2>1, ReceiptIsTakeOrRefuse, ExchangeIsEndOrNothing, EncryptionIsEndOrNothing,
       SaveIsKeepOrEnd, TellingIsEnd DEF WsThread, TheMailbox!MailboxNext
  <2>2. CASE Reader
    <3>1. UNCHANGED <<fate, inbox, told, chat>>
      BY <2>2 DEF Reader, HandleDecrypt, DecryptReads, HandleHistory, HistoryReads,
                  HistoryAnswers, deliveryVars
    <3>. QED BY <3>1, NothingHappens
  <2>3. CASE ProcessEnds
    BY <2>3, DeathIsGoDown DEF TheMailbox!MailboxNext
  <2>4. CASE \E f \in Frames : ClientSends(f)
    BY <2>4, SendingIsSend DEF TheMailbox!MailboxNext
  <2>5. CASE WsStarts \/ ClockTicks \/ UNCHANGED vars
    <3>1. UNCHANGED <<fate, inbox, told, chat>>
      BY <2>5 DEF WsStarts, ClockTicks, vars
    <3>. QED BY <3>1, NothingHappens
  <2>. QED BY <2>1, <2>2, <2>3, <2>4, <2>5 DEF SecretMessagesNext
<1>. QED
  BY <1>1, <1>2, SecretMessagesInvariant, PTL
  DEF SecretMessagesSpec, ImplementsMailbox, TheMailbox!MailboxSpec
=============================================================================
