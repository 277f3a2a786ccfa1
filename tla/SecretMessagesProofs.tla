-------------------------- MODULE SecretMessagesProofs -------------------------
(***************************************************************************)
(* Invariants of SecretMessages, for any frames, senders, keys and bound    *)
(* of the clock, with and without faults, crashes and stale reads.  The     *)
(* invariant IInv adds to the properties what the WebSocket thread has      *)
(* done about its frame (Working, Making), what waits for it (Waiting),     *)
(* and what the HTTP thread has read (Opened, Reading).                     *)
(***************************************************************************)
EXTENDS SecretMessages, SequenceTheorems, TLAPS

USE FramesAssumption, MaxTimeAssumption, FaultsAssumption, CrashesAssumption

HasSecret(f) == \E j \in 1..Len(secrets) : secrets[j].frame = f

\* The frame of the WebSocket thread.
Working ==
  /\ ws.pc \in WsBusyPcs => ws.frame \in Frames /\ fate[ws.frame] = "taken"
  /\ \A f \in Frames : fate[f] = "taken" => ws.pc \in WsBusyPcs /\ f = ws.frame
  /\ ws.pc \in WsBusyPcs \ {"tell"} => ~Stored(ws.frame)
  /\ ws.pc \in {"embed", "encode", "insert"} => frame[ws.frame].kind = "secret"
  /\ ws.pc = "save" => IF frame[ws.frame].kind = "secret" THEN ws.text = "image"
                       ELSE ws.text \in Replies
  /\ ws.pc = "tell" => /\ frame[ws.frame].kind = "plain" /\ ws.text \in Replies
                       /\ IsStored(ws.frame, ws.text) \/ ws.frame \in unsaved

\* The frames that it has not taken up.
Waiting ==
  /\ \A i \in 1..Len(inbox) : fate[inbox[i]] = "waiting"
  /\ \A i, j \in 1..Len(inbox) : inbox[i] = inbox[j] => i = j
  /\ \A f \in Frames : fate[f] \in {"unsent", "waiting"} => ~Stored(f)
  /\ \A f \in Frames : fate[f] # "done" => told[f] = <<>>

\* What handle_encrypt_message has made, and what it has not.
Making ==
  /\ ws.pc \in {"encode", "insert"} => images[ws.frame] # "none"
  /\ ws.pc = "insert" => ws.frame \in texts
  /\ ws.pc \in {"exchange", "embed", "encode", "insert"} => ~HasSecret(ws.frame)
  /\ ws.pc = "save" /\ ws.text = "image" =>
       /\ images[ws.frame] # "none" /\ ws.frame \in texts
       /\ HasSecretRow(ws.frame, clock)
  /\ \A f \in Frames : fate[f] \in {"unsent", "waiting"} => ~HasSecret(f)

\* The row that handle_decrypt_message works on.
Opened ==
  http.pc = "decrypt" =>
    /\ http.ask \in Asks /\ http.row \in Frames /\ frame[http.row].key = http.ask.key
    /\ \E i \in Matches(http.ask.sender, http.ask.at) : secrets[i].frame = http.row

\* How far get_chat_history has come.
Reading ==
  /\ http.rows <= Len(chat)
  /\ http.pc = "history" =>
       /\ http.ask = NoAsk /\ answer.code = 0 /\ answer.secret = NoFrame
       /\ http.unread \subseteq 1..http.rows

IInv ==
  /\ SecretMessagesTypeOK /\ Working /\ Waiting /\ AnswersMatchStore
  /\ Making /\ ListedSecretsAreComplete /\ OrphansAreExplained
  /\ Opened /\ DecryptionIsSound /\ Reading
-----------------------------------------------------------------------------
(* Tables that grow.                                                       *)

ChatRow == [frame : Frames, at : 1..MaxTime, text : Replies \cup {"image"}]
SecretRow == [frame : Frames, at : 1..MaxTime]

ChatGrows ==
  /\ Len(chat) <= Len(chat')
  /\ \A i \in 1..Len(chat) : chat'[i] = chat[i]

SecretsGrow ==
  /\ Len(secrets) <= Len(secrets')
  /\ \A j \in 1..Len(secrets) : secrets'[j] = secrets[j]

LEMMA Types ==
  ASSUME SecretMessagesTypeOK
  PROVE  /\ frame \in [Frames -> Contents]
         /\ chat \in Seq(ChatRow) /\ Len(chat) \in Nat
         /\ \A i \in 1..Len(chat) : chat[i] \in ChatRow /\ chat[i].frame \in Frames
         /\ secrets \in Seq(SecretRow) /\ Len(secrets) \in Nat
         /\ \A j \in 1..Len(secrets) : secrets[j] \in SecretRow /\ secrets[j].frame \in Frames
         /\ inbox \in Seq(Frames) /\ Len(inbox) \in Nat
         /\ \A i \in 1..Len(inbox) : inbox[i] \in Frames
         /\ clock \in 1..MaxTime
<1>1. chat \in Seq(ChatRow) /\ secrets \in Seq(SecretRow) /\ inbox \in Seq(Frames)
  BY DEF SecretMessagesTypeOK, DeliveryTypeOK, ChatRow, SecretRow
<1>2. \A i \in 1..Len(chat) : chat[i] \in ChatRow
  BY <1>1, ElementOfSeq
<1>3. \A j \in 1..Len(secrets) : secrets[j] \in SecretRow
  BY <1>1, ElementOfSeq
<1>4. \A i \in 1..Len(inbox) : inbox[i] \in Frames
  BY <1>1, ElementOfSeq
<1>5. Len(chat) \in Nat /\ Len(secrets) \in Nat /\ Len(inbox) \in Nat
  BY <1>1
<1>6. \A r \in ChatRow : r.frame \in Frames
  BY DEF ChatRow
<1>7. \A r \in SecretRow : r.frame \in Frames
  BY DEF SecretRow
<1>. QED
  BY <1>1, <1>2, <1>3, <1>4, <1>5, <1>6, <1>7 DEF SecretMessagesTypeOK, DeliveryTypeOK

LEMMA GrowingKeeps ==
  ASSUME SecretMessagesTypeOK, ChatGrows, SecretsGrow,
         Len(chat') \in Nat, Len(secrets') \in Nat
  PROVE  /\ \A f \in Frames : Stored(f) => Stored(f)'
         /\ \A f \in Frames, x \in Replies \cup {"image"} : IsStored(f, x) => IsStored(f, x)'
         /\ \A f \in Frames : HasSecret(f) => HasSecret(f)'
         /\ \A f \in Frames, t \in 1..MaxTime : HasSecretRow(f, t) => HasSecretRow(f, t)'
<1>1. /\ \A i \in 1..Len(chat) : i \in 1..Len(chat') /\ chat'[i] = chat[i]
      /\ \A j \in 1..Len(secrets) : j \in 1..Len(secrets') /\ secrets'[j] = secrets[j]
  BY Types, SMT DEF ChatGrows, SecretsGrow
<1>. QED BY <1>1 DEF Stored, IsStored, HasSecret, HasSecretRow

\* Appending a row.
LEMMA ChatAppends ==
  ASSUME SecretMessagesTypeOK, NEW row \in ChatRow, chat' = Append(chat, row)
  PROVE  /\ chat' \in Seq(ChatRow) /\ Len(chat') \in Nat /\ ChatGrows
         /\ Len(chat') = Len(chat) + 1
         /\ Len(chat) + 1 \in 1..Len(chat') /\ chat'[Len(chat) + 1] = row
         /\ \A i \in 1..Len(chat') : i \in 1..Len(chat) \/ i = Len(chat) + 1
<1>1. /\ chat' \in Seq(ChatRow) /\ Len(chat') = Len(chat) + 1
      /\ chat'[Len(chat) + 1] = row
      /\ \A i \in 1..Len(chat) : chat'[i] = chat[i]
  BY Types, AppendProperties
<1>. QED BY <1>1, Types, SMT DEF ChatGrows

LEMMA SecretsAppend ==
  ASSUME SecretMessagesTypeOK, NEW row \in SecretRow, secrets' = Append(secrets, row)
  PROVE  /\ secrets' \in Seq(SecretRow) /\ Len(secrets') \in Nat /\ SecretsGrow
         /\ Len(secrets') = Len(secrets) + 1
         /\ Len(secrets) + 1 \in 1..Len(secrets') /\ secrets'[Len(secrets) + 1] = row
         /\ \A j \in 1..Len(secrets') : j \in 1..Len(secrets) \/ j = Len(secrets) + 1
<1>1. /\ secrets' \in Seq(SecretRow) /\ Len(secrets') = Len(secrets) + 1
      /\ secrets'[Len(secrets) + 1] = row
      /\ \A j \in 1..Len(secrets) : secrets'[j] = secrets[j]
  BY Types, AppendProperties
<1>. QED BY <1>1, Types, SMT DEF SecretsGrow

\* The HTTP thread's own: nothing that it relies on changes under it.
LEMMA ReaderStays ==
  ASSUME IInv, UNCHANGED <<frame, http, answer>>, env => env',
         ChatGrows, SecretsGrow, Len(chat') \in Nat, Len(secrets') \in Nat,
         \A f \in Frames : HasSecret(f) => images'[f] = images[f]
  PROVE  Opened' /\ DecryptionIsSound' /\ Reading'
<1>. USE DEF IInv
<1>1. /\ \A i \in 1..Len(chat) : i \in 1..Len(chat') /\ chat'[i] = chat[i]
      /\ \A j \in 1..Len(secrets) : j \in 1..Len(secrets') /\ secrets'[j] = secrets[j]
                                    /\ HasSecret(secrets[j].frame)
  BY Types, SMT DEF ChatGrows, SecretsGrow, HasSecret
<1>2. \A sender, at : \A i \in Matches(sender, at) :
        /\ i \in Matches(sender, at)' /\ secrets'[i] = secrets[i]
        /\ secrets[i].frame \in Frames /\ images'[secrets[i].frame] = images[secrets[i].frame]
  BY <1>1, Types DEF Matches
<1>3. Opened'
  BY <1>2 DEF Opened
<1>4. DecryptionIsSound'
  <2>. DEFINE named == {secrets[i].frame : i \in Matches(http.ask.sender, http.ask.at)}
  <2>1. \A f \in named : f \in named' /\ images'[f] = images[f]
    BY <1>2
  <2>2. CASE http.pc = "answered"
    <3>1. /\ answer.code = 200 /\ answer.secret # Garbage =>
               answer.secret \in named /\ frame[answer.secret].key = http.ask.key /\ env
          /\ answer.code = 200 /\ answer.secret = Garbage /\ http.ask # NoAsk =>
               StaleReads \/ \E f \in named : frame[f].key = http.ask.key /\ images[f] = "cut"
          /\ answer.code = 403 => \E f \in named : frame[f].key # http.ask.key
      BY <2>2 DEF DecryptionIsSound
    <3>. HIDE DEF named
    <3>2. /\ answer.code = 200 /\ answer.secret # Garbage =>
               answer.secret \in named' /\ frame[answer.secret].key = http.ask.key /\ env'
          /\ answer.code = 200 /\ answer.secret = Garbage /\ http.ask # NoAsk =>
               StaleReads \/ \E f \in named' : frame[f].key = http.ask.key /\ images'[f] = "cut"
          /\ answer.code = 403 => \E f \in named' : frame[f].key # http.ask.key
      BY <2>1, <3>1
    <3>. QED BY <3>2 DEF DecryptionIsSound, named
  <2>3. CASE http.pc # "answered"
    BY <2>3 DEF DecryptionIsSound
  <2>. QED BY <2>2, <2>3
<1>5. http.rows \in Nat /\ http.rows <= Len(chat')
  BY Types, SMT DEF ChatGrows, Reading, SecretMessagesTypeOK
<1>6. Reading'
  BY <1>5 DEF Reading
<1>. QED BY <1>3, <1>4, <1>6
-----------------------------------------------------------------------------
(* The end of a frame.                                                     *)

Answers == Seq(Replies \cup {"error", "http"})

\* What may be answered about a frame.
Right(f, answers) ==
  /\ frame[f].kind = "plain" =>
       \/ answers = <<"error">>
       \/ \E x \in Replies : answers = <<x>> /\ (IsStored(f, x) \/ f \in unsaved)
  /\ frame[f].kind = "secret" =>
       \/ answers \in {<<"error">>, <<"http", "error">>}
       \/ answers = <<>> /\ (IsStored(f, "image") \/ f \in unsaved)
  /\ answers # <<>> /\ Stored(f) => answers[Len(answers)] # "error"

LEMMA Literals ==
  /\ <<"error">> \in Answers /\ <<"http", "error">> \in Answers /\ <<>> \in Answers
  /\ \A x \in Replies : <<x>> \in Answers /\ <<x>>[Len(<<x>>)] # "error"
BY DEF Answers, Replies

LEMMA WsTypes ==
  ASSUME SecretMessagesTypeOK
  PROVE  /\ ws \in [pc : {"off", "idle"} \cup WsBusyPcs, frame : Frames \cup {NoFrame},
                    text : Replies \cup {"none", "image"}]
         /\ fate \in [Frames -> {"unsent", "waiting", "taken", "done", "lost"}]
         /\ told \in [Frames -> Answers]
         /\ WsIdle.pc = "idle" /\ "idle" \notin WsBusyPcs /\ WsOff.pc = "off"
         /\ "off" \notin WsBusyPcs
         /\ WsIdle \in [pc : {"off", "idle"} \cup WsBusyPcs, frame : Frames \cup {NoFrame},
                        text : Replies \cup {"none", "image"}]
         /\ WsOff \in [pc : {"off", "idle"} \cup WsBusyPcs, frame : Frames \cup {NoFrame},
                       text : Replies \cup {"none", "image"}]
<1>1. /\ ws \in [pc : {"off", "idle"} \cup WsBusyPcs, frame : Frames \cup {NoFrame},
                 text : Replies \cup {"none", "image"}]
      /\ fate \in [Frames -> {"unsent", "waiting", "taken", "done", "lost"}]
      /\ told \in [Frames -> Answers]
  BY DEF SecretMessagesTypeOK, DeliveryTypeOK, Answers
<1>2. WsIdle.pc = "idle" /\ "idle" \notin WsBusyPcs /\ WsOff.pc = "off" /\ "off" \notin WsBusyPcs
  BY DEF WsIdle, WsOff, WsBusyPcs
<1>3. WsIdle \in [pc : {"off", "idle"} \cup WsBusyPcs, frame : Frames \cup {NoFrame},
                 text : Replies \cup {"none", "image"}]
  BY DEF WsIdle
<1>4. WsOff \in [pc : {"off", "idle"} \cup WsBusyPcs, frame : Frames \cup {NoFrame},
                text : Replies \cup {"none", "image"}]
  BY DEF WsOff, WsIdle
<1>. QED BY <1>1, <1>2, <1>3, <1>4

\* Ends keeps what is said of frames, if its answers are right.
LEMMA EndsKeeps ==
  ASSUME IInv, NEW f \in Frames, NEW answers \in Answers, Ends(f, answers),
         \A g \in Frames : g # f => fate[g] # "taken",
         fate[f] \in {"waiting", "taken"},
         frame' = frame, unsaved \subseteq unsaved',
         ChatGrows, SecretsGrow, Len(chat') \in Nat, Len(secrets') \in Nat,
         \A g \in Frames : g # f => (Stored(g)' <=> Stored(g)),
         Right(f, answers)',
         inbox' \in Seq(Frames),
         \A i \in 1..Len(inbox') : inbox'[i] # f /\ fate[inbox'[i]] = "waiting",
         \A i, j \in 1..Len(inbox') : inbox'[i] = inbox'[j] => i = j
  PROVE  /\ fate' \in [Frames -> {"unsent", "waiting", "taken", "done", "lost"}]
         /\ told' \in [Frames -> Answers]
         /\ ws' \in [pc : {"off", "idle"} \cup WsBusyPcs, frame : Frames \cup {NoFrame},
                     text : Replies \cup {"none", "image"}]
         /\ ws'.pc = "idle"
         /\ fate'[f] = "done" /\ told'[f] = answers
         /\ \A g \in Frames : g # f => fate'[g] = fate[g] /\ told'[g] = told[g]
         /\ Working' /\ Waiting' /\ AnswersMatchStore'
<1>. USE DEF IInv
<1>1. /\ fate' \in [Frames -> {"unsent", "waiting", "taken", "done", "lost"}]
      /\ told' \in [Frames -> Answers]
      /\ ws' = WsIdle
      /\ fate'[f] = "done" /\ told'[f] = answers
      /\ \A g \in Frames : g # f => fate'[g] = fate[g] /\ told'[g] = told[g]
  BY WsTypes DEF Ends
<1>2. ws'.pc = "idle" /\ "idle" \notin WsBusyPcs
  BY <1>1, WsTypes
<1>3. Working'
  BY <1>1, <1>2 DEF Working, WsBusyPcs
<1>4. Waiting'
  <2>1. \A i \in 1..Len(inbox') : inbox'[i] \in Frames
    BY ElementOfSeq
  <2>2. \A i \in 1..Len(inbox') : fate'[inbox'[i]] = "waiting"
    BY <1>1, <2>1
  <2>3. \A g \in Frames : fate'[g] \in {"unsent", "waiting"} => ~Stored(g)'
    BY <1>1 DEF Waiting
  <2>4. \A g \in Frames : fate'[g] # "done" => told'[g] = <<>>
    BY <1>1 DEF Waiting
  <2>. QED BY <2>2, <2>3, <2>4 DEF Waiting
<1>5. ASSUME NEW g \in Frames
      PROVE  /\ fate'[g] = "done" => /\ frame'[g].kind = "plain" =>
                                          \/ told'[g] = <<"error">>
                                          \/ \E x \in Replies : told'[g] = <<x>>
                                               /\ (IsStored(g, x)' \/ g \in unsaved')
                                     /\ frame'[g].kind = "secret" =>
                                          \/ told'[g] \in {<<"error">>, <<"http", "error">>}
                                          \/ told'[g] = <<>>
                                             /\ (IsStored(g, "image")' \/ g \in unsaved')
             /\ told'[g] # <<>> /\ Stored(g)' => told'[g][Len(told'[g])] # "error"
  <2>1. CASE g = f
    BY <1>1, <2>1 DEF Right
  <2>2. CASE g # f
    <3>1. \A x \in Replies \cup {"image"} : IsStored(g, x) => IsStored(g, x)'
      BY GrowingKeeps
    <3>2. fate'[g] = fate[g] /\ told'[g] = told[g] /\ (Stored(g)' <=> Stored(g))
      BY <1>1, <2>2
    <3>. QED BY <3>1, <3>2 DEF AnswersMatchStore
  <2>. QED BY <2>1, <2>2
<1>6. AnswersMatchStore'
  BY <1>5 DEF AnswersMatchStore
<1>. QED BY <1>1, <1>2, <1>3, <1>4, <1>6, WsTypes

\* The thread goes on with its frame, and nothing is said or stored.
LEMMA BusyKeeps ==
  ASSUME IInv, UNCHANGED <<frame, fate, inbox, told, chat, unsaved>>,
         ws.pc \in WsBusyPcs, NEW pc \in WsBusyPcs \ {"tell"}, ws.pc # "tell",
         ws'.pc = pc, ws'.frame = ws.frame,
         pc \in {"embed", "encode", "insert"} => frame[ws.frame].kind = "secret",
         pc = "save" => IF frame[ws.frame].kind = "secret" THEN ws'.text = "image"
                        ELSE ws'.text \in Replies
  PROVE  Working' /\ Waiting' /\ AnswersMatchStore'
<1>1. /\ \A f : Stored(f)' <=> Stored(f)
      /\ \A f, x : IsStored(f, x)' <=> IsStored(f, x)
  BY DEF Stored, IsStored
<1>2. Working'
  BY <1>1 DEF IInv, Working
<1>. QED BY <1>1, <1>2 DEF IInv, Waiting, AnswersMatchStore
-----------------------------------------------------------------------------
(* What is stored.                                                         *)

\* The files and tables of secrets, when a step only adds to them.
LEMMA StoreKeeps ==
  ASSUME IInv, ChatGrows, SecretsGrow, Len(chat') \in Nat, Len(secrets') \in Nat,
         \A f \in Frames : images[f] # "none" => images'[f] # "none",
         \A f \in Frames : f \in texts => f \in texts'
  PROVE  \A i \in 1..Len(chat) : chat'[i].text = "image" =>
           /\ images'[chat'[i].frame] # "none"
           /\ chat'[i].frame \in texts'
           /\ HasSecretRow(chat[i].frame, chat[i].at)' /\ chat'[i] = chat[i]
<1>. USE DEF IInv
<1>1. \A i \in 1..Len(chat) : /\ chat'[i] = chat[i] /\ chat[i].frame \in Frames
                              /\ chat[i].at \in 1..MaxTime
  BY Types DEF ChatGrows, ChatRow
<1>2. \A f \in Frames, t \in 1..MaxTime : HasSecretRow(f, t) => HasSecretRow(f, t)'
  BY GrowingKeeps
<1>. QED BY <1>1, <1>2 DEF ListedSecretsAreComplete

\* Stored secrets stay explained.
LEMMA OrphansKeep ==
  ASSUME IInv, secrets' = secrets, ChatGrows, Len(chat') \in Nat, unsaved \subseteq unsaved',
         \A f \in Frames : fate[f] = "lost" => fate'[f] = "lost",
         \A f \in Frames : told[f] # <<>> => told'[f] = told[f],
         \A f \in Frames : ws.pc = "save" /\ ws.frame = f =>
           \/ Stored(f)' \/ f \in unsaved' \/ fate'[f] = "lost"
           \/ ws'.pc = "save" /\ ws'.frame = f
  PROVE  OrphansAreExplained'
<1>1. SecretsGrow /\ Len(secrets') \in Nat
  BY Types, SMT DEF SecretsGrow, IInv
<1>2. ASSUME NEW j \in 1..Len(secrets), NEW f \in Frames, f = secrets[j].frame
      PROVE  \/ Stored(f)' \/ f \in unsaved'
             \/ ws'.pc = "save" /\ ws'.frame = f
             \/ fate'[f] = "lost" \/ told'[f] = <<"http", "error">>
  <2>1. Stored(f) => Stored(f)'
    BY <1>1, GrowingKeeps DEF IInv
  <2>2. \/ Stored(f) \/ f \in unsaved
        \/ ws.pc = "save" /\ ws.frame = f
        \/ fate[f] = "lost" \/ told[f] = <<"http", "error">>
    BY <1>2 DEF IInv, OrphansAreExplained
  <2>3. told[f] = <<"http", "error">> => told[f] # <<>>
    OBVIOUS
  <2>. QED BY <2>1, <2>2, <2>3
<1>3. \A j \in 1..Len(secrets) : secrets[j].frame \in Frames
  BY Types DEF IInv
<1>4. ASSUME NEW j \in 1..Len(secrets')
      PROVE  LET f == secrets'[j].frame IN
               \/ \E i \in 1..Len(chat') : chat'[i].frame = f
               \/ f \in unsaved'
               \/ ws'.pc = "save" /\ ws'.frame = f
               \/ fate'[f] = "lost" \/ told'[f] = <<"http", "error">>
  <2>1. PICK f \in Frames : f = secrets[j].frame
    BY <1>3
  <2>. QED BY <1>2, <2>1 DEF Stored
<1>. QED BY <1>4 DEF OrphansAreExplained, Stored
-----------------------------------------------------------------------------
(* process_message.                                                        *)

\* Steps that leave the tables, the files and the HTTP thread as they are.
LEMMA NothingIsStored ==
  ASSUME IInv, UNCHANGED <<frame, chat, unsaved, clock, secretsVars, readerVars>>,
         \A f \in Frames : fate[f] = "lost" => fate'[f] = "lost",
         \A f \in Frames : told[f] # <<>> => told'[f] = told[f],
         ws.pc # "save"
  PROVE  /\ ListedSecretsAreComplete' /\ OrphansAreExplained'
         /\ Opened' /\ DecryptionIsSound' /\ Reading'
<1>1. ChatGrows /\ SecretsGrow /\ Len(chat') \in Nat /\ Len(secrets') \in Nat
  BY Types, SMT DEF ChatGrows, SecretsGrow, secretsVars, IInv
<1>2. OrphansAreExplained'
  BY <1>1, OrphansKeep DEF secretsVars
<1>3. ListedSecretsAreComplete'
  BY DEF IInv, ListedSecretsAreComplete, HasSecretRow, secretsVars
<1>4. Opened' /\ DecryptionIsSound' /\ Reading'
  BY <1>1, ReaderStays DEF secretsVars, readerVars
<1>. QED BY <1>2, <1>3, <1>4

LEMMA NobodyElse ==
  ASSUME IInv
  PROVE  /\ ws.pc \in WsBusyPcs =>
              /\ ws.frame \in Frames /\ fate[ws.frame] = "taken" /\ told[ws.frame] = <<>>
              /\ \A g \in Frames : g # ws.frame => fate[g] # "taken"
              /\ \A i \in 1..Len(inbox) : inbox[i] # ws.frame
         /\ ws.pc \notin WsBusyPcs => \A g \in Frames : fate[g] # "taken"
         /\ \A f \in Frames : frame[f].kind \in {"plain", "secret"}
<1>1. \A f \in Frames : frame[f].kind \in {"plain", "secret"}
  <2>1. \A f \in Frames : frame[f] \in Contents
    BY Types DEF IInv
  <2>2. \A x \in Contents : x.kind \in {"plain", "secret"}
    BY DEF Contents
  <2>. QED BY <2>1, <2>2
<1>2. ASSUME ws.pc \in WsBusyPcs
      PROVE  /\ ws.frame \in Frames /\ fate[ws.frame] = "taken" /\ told[ws.frame] = <<>>
             /\ \A g \in Frames : g # ws.frame => fate[g] # "taken"
             /\ \A i \in 1..Len(inbox) : inbox[i] # ws.frame
  BY <1>2 DEF IInv, Working, Waiting
<1>. QED BY <1>1, <1>2 DEF IInv, Working

LEMMA WsReceivesIInv ==
  ASSUME IInv, WsReceives, UNCHANGED <<secretsVars, readerVars>>
  PROVE  IInv'
<1>. USE DEF IInv
<1>1. /\ ws.pc = "idle" /\ inbox # <<>> /\ inbox' = Tail(inbox)
      /\ UNCHANGED <<frame, chat, unsaved, clock>>
  BY DEF WsReceives
<1>2. inbox \in Seq(Frames) /\ Len(inbox) \in Nat
  BY Types
<1>a. PICK f \in Frames : f = Head(inbox)
  BY <1>1, <1>2, HeadTailProperties
<1>3. /\ inbox' \in Seq(Frames) /\ Len(inbox') \in Nat /\ f = inbox[1]
      /\ 1 \in 1..Len(inbox)
      /\ \A i \in 1..Len(inbox') : /\ inbox'[i] = inbox[i + 1]
                                   /\ i + 1 \in 1..Len(inbox) /\ i + 1 # 1 /\ i \in Nat
  <2>1. /\ inbox' \in Seq(Frames) /\ Len(inbox') = Len(inbox) - 1 /\ f = inbox[1]
        /\ \A i \in 1..Len(inbox') : inbox'[i] = inbox[i + 1]
    BY <1>1, <1>2, <1>a, HeadTailProperties
  <2>2. Len(inbox) # 0
    BY <1>1, <1>2, EmptySeq
  <2>. QED BY <1>2, <2>1, <2>2, SMT
<1>4. /\ fate[f] = "waiting" /\ told[f] = <<>> /\ ~Stored(f) /\ ~HasSecret(f)
  BY <1>3 DEF Waiting, Making
<1>5. \A i \in 1..Len(inbox') : inbox'[i] # f /\ fate[inbox'[i]] = "waiting"
  BY <1>3 DEF Waiting
<1>6. ASSUME NEW i \in 1..Len(inbox'), NEW j \in 1..Len(inbox'), inbox'[i] = inbox'[j]
      PROVE  i = j
  <2>1. i + 1 = j + 1
    BY <1>3, <1>6 DEF Waiting
  <2>. QED BY <1>3, <2>1, SMT
<1>7. ws.pc \notin WsBusyPcs /\ \A g \in Frames : fate[g] # "taken"
  BY <1>1, NobodyElse DEF WsBusyPcs
<1>8. wsdb' \in {"none", "open", "lost"}
  BY DEF WsReceives, WsQueryFails, SecretMessagesTypeOK, DeliveryTypeOK
<1>9. ChatGrows /\ SecretsGrow /\ Len(chat') \in Nat /\ Len(secrets') \in Nat
  BY <1>1, Types, SMT DEF ChatGrows, SecretsGrow, secretsVars
<1>10. \A g : (Stored(g)' <=> Stored(g)) /\ (HasSecret(g)' <=> HasSecret(g))
  BY <1>1 DEF Stored, HasSecret, secretsVars
<1>11. CASE Ends(f, <<"error">>)
  <2>1. Right(f, <<"error">>)'
    BY <1>4, <1>10 DEF Right
  <2>2. /\ fate' \in [Frames -> {"unsent", "waiting", "taken", "done", "lost"}]
        /\ told' \in [Frames -> Answers]
        /\ ws' \in [pc : {"off", "idle"} \cup WsBusyPcs, frame : Frames \cup {NoFrame},
                    text : Replies \cup {"none", "image"}]
        /\ ws'.pc = "idle"
        /\ fate'[f] = "done" /\ told'[f] = <<"error">>
        /\ \A g \in Frames : g # f => fate'[g] = fate[g] /\ told'[g] = told[g]
        /\ Working' /\ Waiting' /\ AnswersMatchStore'
    <3>1. /\ \A g \in Frames : g # f => fate[g] # "taken" /\ (Stored(g)' <=> Stored(g))
          /\ <<"error">> \in Answers
      BY <1>7, <1>10, Literals
    <3>2. /\ inbox' \in Seq(Frames)
          /\ \A i \in 1..Len(inbox') : inbox'[i] # f /\ fate[inbox'[i]] = "waiting"
          /\ \A i, j \in 1..Len(inbox') : inbox'[i] = inbox'[j] => i = j
      BY <1>3, <1>5, <1>6
    <3>. HIDE DEF IInv
    <3>. QED BY <1>1, <1>3, <1>4, <1>9, <1>11, <2>1, <3>1, <3>2, EndsKeeps
  <2>3. SecretMessagesTypeOK'
    <3>1. DeliveryTypeOK'
      <4>. HIDE DEF IInv
      <4>1. DeliveryTypeOK
        BY DEF IInv, SecretMessagesTypeOK
      <4>. QED BY <1>1, <1>3, <1>8, <2>2, <4>1 DEF DeliveryTypeOK, Answers
    <3>. QED BY <3>1 DEF SecretMessagesTypeOK, secretsVars, readerVars
  <2>4. Making'
    BY <1>10, <2>2 DEF Making
  <2>5. /\ ListedSecretsAreComplete' /\ OrphansAreExplained'
        /\ Opened' /\ DecryptionIsSound' /\ Reading'
    <3>1. \A g \in Frames : fate[g] = "lost" => fate'[g] = "lost"
      BY <1>4, <2>2
    <3>2. \A g \in Frames : told[g] # <<>> => told'[g] = told[g]
      BY <1>4, <2>2
    <3>. QED BY <1>1, <3>1, <3>2, NothingIsStored
  <2>. QED BY <2>2, <2>3, <2>4, <2>5
<1>12. CASE /\ ws' = [ws EXCEPT !.pc = "exchange", !.frame = f]
            /\ fate' = [fate EXCEPT ![f] = "taken"]
            /\ UNCHANGED told
  <2>1. /\ ws'.pc = "exchange" /\ ws'.frame = f /\ "exchange" \in WsBusyPcs
        /\ ws' \in [pc : {"off", "idle"} \cup WsBusyPcs, frame : Frames \cup {NoFrame},
                    text : Replies \cup {"none", "image"}]
    BY <1>3, <1>12, WsTypes DEF WsBusyPcs
  <2>2. /\ fate' \in [Frames -> {"unsent", "waiting", "taken", "done", "lost"}]
        /\ fate'[f] = "taken" /\ \A g \in Frames : g # f => fate'[g] = fate[g]
    BY <1>3, <1>12, WsTypes
  <2>3. SecretMessagesTypeOK'
    <3>1. DeliveryTypeOK'
      <4>. HIDE DEF IInv
      <4>1. DeliveryTypeOK
        BY DEF IInv, SecretMessagesTypeOK
      <4>. QED BY <1>1, <1>3, <1>8, <1>12, <2>1, <2>2, <4>1 DEF DeliveryTypeOK
    <3>. QED BY <3>1 DEF SecretMessagesTypeOK, secretsVars, readerVars
  <2>4. Working'
    BY <1>3, <1>4, <1>7, <1>10, <2>1, <2>2 DEF Working
  <2>5. Waiting'
    <3>1. \A i \in 1..Len(inbox') : inbox'[i] \in Frames
      BY <1>3, ElementOfSeq
    <3>2. \A i \in 1..Len(inbox') : fate'[inbox'[i]] = "waiting"
      BY <1>5, <2>2, <3>1
    <3>3. \A g \in Frames : fate'[g] \in {"unsent", "waiting"} => ~Stored(g)'
      BY <1>10, <2>2 DEF Waiting
    <3>4. \A g \in Frames : fate'[g] # "done" => told'[g] = <<>>
      BY <1>4, <1>12, <2>2 DEF Waiting
    <3>. QED BY <1>6, <3>2, <3>3, <3>4 DEF Waiting
  <2>6. AnswersMatchStore'
    <3>1. \A g : Stored(g)' <=> Stored(g)
      BY <1>10
    <3>2. \A g, x : IsStored(g, x)' <=> IsStored(g, x)
      BY <1>1 DEF IsStored
    <3>3. \A g \in Frames : fate'[g] = "done" => fate[g] = "done"
      BY <2>2
    <3>. QED BY <1>1, <1>12, <3>1, <3>2, <3>3 DEF AnswersMatchStore
  <2>7. Making'
    BY <1>4, <1>10, <2>1, <2>2 DEF Making
  <2>8. /\ ListedSecretsAreComplete' /\ OrphansAreExplained'
        /\ Opened' /\ DecryptionIsSound' /\ Reading'
    <3>1. \A g \in Frames : fate[g] = "lost" => fate'[g] = "lost"
      BY <1>4, <2>2
    <3>. QED BY <1>1, <1>12, <3>1, NothingIsStored
  <2>. QED BY <2>3, <2>4, <2>5, <2>6, <2>7, <2>8
<1>. QED BY <1>a, <1>11, <1>12 DEF WsReceives

\* The thread ends its frame with an error, and no table is touched.
LEMMA FailsKeeps ==
  ASSUME IInv, NEW f \in Frames, f = ws.frame, ws.pc \in WsBusyPcs \ {"save", "tell"},
         NEW answers \in Answers, Ends(f, answers),
         frame[f].kind = "secret" => answers \in {<<"error">>, <<"http", "error">>},
         frame[f].kind = "plain" => answers = <<"error">>,
         UNCHANGED <<frame, inbox, wsdb, chat, unsaved, clock>>,
         SecretsGrow, Len(secrets') \in Nat
  PROVE  /\ DeliveryTypeOK' /\ Working' /\ Waiting' /\ AnswersMatchStore'
         /\ ws'.pc = "idle" /\ fate'[f] = "done" /\ told'[f] = answers
         /\ \A g \in Frames : g # f => fate'[g] = fate[g] /\ told'[g] = told[g]
<1>. USE DEF IInv
<1>1. /\ fate[f] = "taken" /\ told[f] = <<>>
      /\ \A g \in Frames : g # f => fate[g] # "taken"
      /\ \A i \in 1..Len(inbox) : inbox[i] # f
  BY NobodyElse
<1>2. /\ inbox \in Seq(Frames) /\ Len(chat) \in Nat
      /\ \A i \in 1..Len(inbox) : fate[inbox[i]] = "waiting"
      /\ \A i, j \in 1..Len(inbox) : inbox[i] = inbox[j] => i = j
  BY Types DEF Waiting
<1>3. ChatGrows /\ Len(chat') \in Nat /\ unsaved \subseteq unsaved'
  BY <1>2, SMT DEF ChatGrows
<1>4. \A g : Stored(g)' <=> Stored(g)
  BY DEF Stored
<1>5. ~Stored(f)
  BY DEF Working
<1>6. Right(f, answers)'
  BY <1>4, <1>5 DEF Right
<1>7. /\ fate' \in [Frames -> {"unsent", "waiting", "taken", "done", "lost"}]
      /\ told' \in [Frames -> Answers]
      /\ ws' \in [pc : {"off", "idle"} \cup WsBusyPcs, frame : Frames \cup {NoFrame},
                  text : Replies \cup {"none", "image"}]
      /\ ws'.pc = "idle"
      /\ fate'[f] = "done" /\ told'[f] = answers
      /\ \A g \in Frames : g # f => fate'[g] = fate[g] /\ told'[g] = told[g]
      /\ Working' /\ Waiting' /\ AnswersMatchStore'
  <2>1. /\ inbox' \in Seq(Frames) /\ frame' = frame
        /\ \A i \in 1..Len(inbox') : inbox'[i] # f /\ fate[inbox'[i]] = "waiting"
        /\ \A i, j \in 1..Len(inbox') : inbox'[i] = inbox'[j] => i = j
    BY <1>1, <1>2
  <2>2. \A g \in Frames : g # f => (Stored(g)' <=> Stored(g))
    BY <1>4
  <2>3. fate[f] \in {"waiting", "taken"}
    BY <1>1
  <2>. QED BY <1>1, <1>3, <1>6, <2>1, <2>2, <2>3, EndsKeeps
<1>8. DeliveryTypeOK'
  <2>1. DeliveryTypeOK
    BY DEF SecretMessagesTypeOK
  <2>. QED BY <1>7, <2>1 DEF DeliveryTypeOK, Answers
<1>. QED BY <1>7, <1>8

LEMMA WsExchangesIInv ==
  ASSUME IInv, WsExchanges, UNCHANGED <<secretsVars, readerVars>>
  PROVE  IInv'
<1>. USE DEF IInv
<1>1. /\ ws.pc = "exchange" /\ ws.pc \in WsBusyPcs /\ ws.pc # "tell" /\ ws.pc # "save"
      /\ UNCHANGED <<frame, inbox, wsdb, chat, unsaved, clock>>
  BY DEF WsExchanges, WsBusyPcs
<1>2. PICK f \in Frames : f = ws.frame
  BY <1>1, NobodyElse
<1>3. fate[f] = "taken" /\ told[f] = <<>> /\ ~HasSecret(f)
  BY <1>1, <1>2, NobodyElse DEF Making
<1>4. SecretsGrow /\ Len(secrets') \in Nat
  BY Types, SMT DEF SecretsGrow, secretsVars
<1>5. \A g : HasSecret(g)' <=> HasSecret(g)
  BY DEF HasSecret, secretsVars
<1>6. CASE frame[f].kind = "plain" /\ Ends(f, <<"error">>)
  <2>1. /\ DeliveryTypeOK' /\ Working' /\ Waiting' /\ AnswersMatchStore'
        /\ ws'.pc = "idle" /\ fate'[f] = "done" /\ told'[f] = <<"error">>
        /\ \A g \in Frames : g # f => fate'[g] = fate[g] /\ told'[g] = told[g]
    BY <1>1, <1>2, <1>4, <1>6, Literals, FailsKeeps
  <2>2. SecretMessagesTypeOK'
    BY <1>1, <2>1 DEF SecretMessagesTypeOK, secretsVars, readerVars
  <2>3. Making'
    BY <1>5, <2>1 DEF Making
  <2>4. /\ ListedSecretsAreComplete' /\ OrphansAreExplained'
        /\ Opened' /\ DecryptionIsSound' /\ Reading'
    BY <1>1, <1>3, <2>1, NothingIsStored
  <2>. QED BY <2>1, <2>2, <2>3, <2>4
<1>7. CASE /\ UNCHANGED <<fate, told>>
           /\ \/ frame[f].kind = "secret" /\ ws' = [ws EXCEPT !.pc = "embed"]
              \/ /\ frame[f].kind = "plain"
                 /\ \E reply \in Replies : ws' = [ws EXCEPT !.pc = "save", !.text = reply]
  <2>1. /\ ws' \in [pc : {"off", "idle"} \cup WsBusyPcs, frame : Frames \cup {NoFrame},
                    text : Replies \cup {"none", "image"}]
        /\ ws'.frame = f
        /\ \/ ws'.pc = "embed" /\ frame[f].kind = "secret"
           \/ ws'.pc = "save" /\ frame[f].kind = "plain" /\ ws'.text \in Replies
    BY <1>2, <1>7, WsTypes DEF WsBusyPcs
  <2>2. Working' /\ Waiting' /\ AnswersMatchStore'
    <3>1. PICK pc \in WsBusyPcs \ {"tell"} : ws'.pc = pc
      BY <2>1 DEF WsBusyPcs
    <3>2. ws'.frame = ws.frame /\ UNCHANGED <<frame, fate, inbox, told, chat, unsaved>>
      BY <1>1, <1>2, <1>7, <2>1
    <3>3. /\ pc \in {"embed", "encode", "insert"} => frame[ws.frame].kind = "secret"
          /\ pc = "save" => IF frame[ws.frame].kind = "secret" THEN ws'.text = "image"
                            ELSE ws'.text \in Replies
      BY <1>2, <2>1, <3>1
    <3>4. UNCHANGED <<frame, fate, inbox, told, chat, unsaved>> /\ ws.pc # "tell"
      BY <1>1, <1>7
    <3>. QED BY <1>1, <3>1, <3>2, <3>3, <3>4, BusyKeeps
  <2>3. SecretMessagesTypeOK'
    <3>1. DeliveryTypeOK'
      <4>. HIDE DEF IInv
      <4>1. DeliveryTypeOK
        BY DEF IInv, SecretMessagesTypeOK
      <4>. QED BY <1>1, <1>7, <2>1, <4>1 DEF DeliveryTypeOK
    <3>. QED BY <3>1 DEF SecretMessagesTypeOK, secretsVars, readerVars
  <2>4. Making'
    BY <1>3, <1>5, <1>7, <2>1 DEF Making, Replies
  <2>5. /\ ListedSecretsAreComplete' /\ OrphansAreExplained'
        /\ Opened' /\ DecryptionIsSound' /\ Reading'
    BY <1>1, <1>7, NothingIsStored
  <2>. QED BY <2>2, <2>3, <2>4, <2>5
<1>. QED BY <1>2, <1>6, <1>7 DEF WsExchanges

LEMMA WsTellsIInv ==
  ASSUME IInv, WsTells, UNCHANGED <<secretsVars, readerVars>>
  PROVE  IInv'
<1>. USE DEF IInv
<1>1. /\ ws.pc = "tell" /\ ws.pc \in WsBusyPcs
      /\ UNCHANGED <<frame, inbox, wsdb, chat, unsaved, clock>>
  BY DEF WsTells, WsBusyPcs
<1>2. PICK f \in Frames : f = ws.frame
  BY <1>1, NobodyElse
<1>3. PICK x \in Replies : x = ws.text
  BY <1>1 DEF Working
<1>4. Ends(f, <<x>>) /\ <<x>> \in Answers
  BY <1>2, <1>3, Literals DEF WsTells
<1>5. /\ fate[f] = "taken" /\ told[f] = <<>>
      /\ \A g \in Frames : g # f => fate[g] # "taken"
      /\ \A i \in 1..Len(inbox) : inbox[i] # f
  BY <1>1, <1>2, NobodyElse
<1>6. /\ inbox \in Seq(Frames)
      /\ \A i \in 1..Len(inbox) : fate[inbox[i]] = "waiting"
      /\ \A i, j \in 1..Len(inbox) : inbox[i] = inbox[j] => i = j
  BY Types DEF Waiting
<1>7. /\ ChatGrows /\ SecretsGrow /\ Len(chat') \in Nat /\ Len(secrets') \in Nat
      /\ unsaved \subseteq unsaved'
  BY <1>1, Types, SMT DEF ChatGrows, SecretsGrow, secretsVars
<1>8. \A g : /\ Stored(g)' <=> Stored(g)
             /\ HasSecret(g)' <=> HasSecret(g)
             /\ \A y : IsStored(g, y)' <=> IsStored(g, y)
  BY <1>1 DEF Stored, HasSecret, IsStored, secretsVars
<1>9. Right(f, <<x>>)'
  <2>1. /\ frame[f].kind = "plain" /\ (IsStored(f, x) \/ f \in unsaved)
        /\ <<x>>[Len(<<x>>)] # "error"
    BY <1>1, <1>2, <1>3, Literals DEF Working
  <2>. QED BY <1>1, <1>8, <2>1 DEF Right
<1>10. /\ fate' \in [Frames -> {"unsent", "waiting", "taken", "done", "lost"}]
       /\ told' \in [Frames -> Answers]
       /\ ws' \in [pc : {"off", "idle"} \cup WsBusyPcs, frame : Frames \cup {NoFrame},
                   text : Replies \cup {"none", "image"}]
       /\ ws'.pc = "idle"
       /\ fate'[f] = "done" /\ told'[f] = <<x>>
       /\ \A g \in Frames : g # f => fate'[g] = fate[g] /\ told'[g] = told[g]
       /\ Working' /\ Waiting' /\ AnswersMatchStore'
  BY <1>1, <1>4, <1>5, <1>6, <1>7, <1>8, <1>9, EndsKeeps
<1>11. SecretMessagesTypeOK'
  <2>1. DeliveryTypeOK'
    <3>. HIDE DEF IInv
    <3>1. DeliveryTypeOK
      BY DEF IInv, SecretMessagesTypeOK
    <3>. QED BY <1>1, <1>10, <3>1 DEF DeliveryTypeOK, Answers
  <2>. QED BY <2>1 DEF SecretMessagesTypeOK, secretsVars, readerVars
<1>12. Making'
  BY <1>8, <1>10 DEF Making
<1>13. /\ ListedSecretsAreComplete' /\ OrphansAreExplained'
       /\ Opened' /\ DecryptionIsSound' /\ Reading'
  BY <1>1, <1>5, <1>10, NothingIsStored
<1>. QED BY <1>10, <1>11, <1>12, <1>13

LEMMA WsSavesIInv ==
  ASSUME IInv, WsSaves, UNCHANGED <<secretsVars, readerVars>>
  PROVE  IInv'
<1>. USE DEF IInv
<1>1. /\ ws.pc = "save" /\ ws.pc \in WsBusyPcs /\ UNCHANGED <<frame, inbox, clock>>
  BY DEF WsSaves, WsBusyPcs
<1>2. PICK f \in Frames : f = ws.frame
  BY <1>1, NobodyElse
<1>3. PICK text \in Replies \cup {"image"} : text = ws.text
  BY <1>1, <1>2 DEF Working
<1>4. /\ fate[f] = "taken" /\ told[f] = <<>>
      /\ \A g \in Frames : g # f => fate[g] # "taken"
      /\ \A i \in 1..Len(inbox) : inbox[i] # f
      /\ frame[f].kind \in {"plain", "secret"}
      /\ frame[f].kind = "secret" => text = "image"
      /\ frame[f].kind = "plain" => text \in Replies /\ text # "image"
  BY <1>1, <1>2, <1>3, NobodyElse DEF Working, Replies
<1>5. /\ inbox \in Seq(Frames)
      /\ \A i \in 1..Len(inbox) : fate[inbox[i]] = "waiting"
      /\ \A i, j \in 1..Len(inbox) : inbox[i] = inbox[j] => i = j
  BY Types DEF Waiting
<1>6. wsdb' \in {"none", "open", "lost"}
  BY DEF WsSaves, WsQueryFails, SecretMessagesTypeOK, DeliveryTypeOK
<1>. DEFINE row == [frame |-> f, at |-> clock, text |-> text]
<1>7. row \in ChatRow
  BY Types DEF ChatRow
<1>8. /\ chat' \in Seq(ChatRow) /\ Len(chat') \in Nat /\ ChatGrows
      /\ \/ chat' = chat /\ f \in unsaved'
         \/ /\ Len(chat) + 1 \in 1..Len(chat') /\ chat'[Len(chat) + 1] = row
            /\ \A i \in 1..Len(chat') : i \in 1..Len(chat) \/ i = Len(chat) + 1
      /\ unsaved \subseteq unsaved' /\ unsaved' \subseteq Frames
  <2>1. CASE chat' = Append(chat, Row(ws.frame, ws.text)) /\ unsaved' = unsaved
    <3>1. chat' = Append(chat, row)
      BY <1>2, <1>3, <2>1 DEF Row
    <3>. HIDE DEF row
    <3>2. /\ chat' \in Seq(ChatRow) /\ Len(chat') \in Nat /\ ChatGrows
          /\ Len(chat) + 1 \in 1..Len(chat') /\ chat'[Len(chat) + 1] = row
          /\ \A i \in 1..Len(chat') : i \in 1..Len(chat) \/ i = Len(chat) + 1
      BY <1>7, <3>1, ChatAppends
    <3>. QED BY <2>1, <3>2 DEF SecretMessagesTypeOK, DeliveryTypeOK
  <2>2. CASE unsaved' = unsaved \cup {ws.frame} /\ chat' = chat
    <3>1. chat' \in Seq(ChatRow) /\ Len(chat') \in Nat
      BY <2>2, Types
    <3>2. ChatGrows
      BY <2>2, Types, SMT DEF ChatGrows
    <3>3. unsaved \subseteq unsaved' /\ unsaved' \subseteq Frames /\ f \in unsaved'
      <4>1. unsaved \subseteq Frames
        BY DEF SecretMessagesTypeOK, DeliveryTypeOK
      <4>. QED BY <1>2, <2>2, <4>1
    <3>. QED BY <2>2, <3>1, <3>2, <3>3
  <2>. QED BY <2>1, <2>2 DEF WsSaves
<1>9. row.frame = f /\ row.at = clock /\ row.text = text
  OBVIOUS
<1>. HIDE DEF row
<1>10. SecretsGrow /\ Len(secrets') \in Nat
  BY Types, SMT DEF SecretsGrow, secretsVars
<1>11. IsStored(f, text)' \/ f \in unsaved'
  BY <1>8, <1>9 DEF IsStored
<1>12. \A g \in Frames : g # f => (Stored(g)' <=> Stored(g))
  <2>1. \A g \in Frames : Stored(g) => Stored(g)'
    BY <1>8, <1>10, GrowingKeeps
  <2>2. \A g \in Frames : g # f /\ Stored(g)' => Stored(g)
    BY <1>8, <1>9 DEF Stored, ChatGrows
  <2>. QED BY <2>1, <2>2
<1>13. \A g : HasSecret(g)' <=> HasSecret(g)
  BY DEF HasSecret, secretsVars
<1>14. ASSUME frame[f].kind = "secret"
       PROVE  /\ fate' \in [Frames -> {"unsent", "waiting", "taken", "done", "lost"}]
              /\ told' \in [Frames -> Answers]
              /\ ws' \in [pc : {"off", "idle"} \cup WsBusyPcs, frame : Frames \cup {NoFrame},
                          text : Replies \cup {"none", "image"}]
              /\ ws'.pc = "idle" /\ fate'[f] = "done"
              /\ \A g \in Frames : g # f => fate'[g] = fate[g] /\ told'[g] = told[g]
              /\ Working' /\ Waiting' /\ AnswersMatchStore'
  <2>1. Ends(f, <<>>)
    BY <1>2, <1>14 DEF WsSaves
  <2>2. Right(f, <<>>)'
    BY <1>1, <1>4, <1>11, <1>14 DEF Right
  <2>3. /\ fate' \in [Frames -> {"unsent", "waiting", "taken", "done", "lost"}]
        /\ told' \in [Frames -> Answers]
        /\ ws' \in [pc : {"off", "idle"} \cup WsBusyPcs, frame : Frames \cup {NoFrame},
                    text : Replies \cup {"none", "image"}]
        /\ ws'.pc = "idle"
        /\ fate'[f] = "done" /\ told'[f] = <<>>
        /\ \A g \in Frames : g # f => fate'[g] = fate[g] /\ told'[g] = told[g]
        /\ Working' /\ Waiting' /\ AnswersMatchStore'
    BY <1>1, <1>4, <1>5, <1>8, <1>10, <1>12, <2>1, <2>2, Literals, EndsKeeps
  <2>. QED BY <2>3
<1>15. ASSUME frame[f].kind = "plain"
       PROVE  /\ fate' \in [Frames -> {"unsent", "waiting", "taken", "done", "lost"}]
              /\ told' \in [Frames -> Answers]
              /\ ws' \in [pc : {"off", "idle"} \cup WsBusyPcs, frame : Frames \cup {NoFrame},
                          text : Replies \cup {"none", "image"}]
              /\ ws'.pc = "tell" /\ fate'[f] = "taken"
              /\ \A g \in Frames : g # f => fate'[g] = fate[g] /\ told'[g] = told[g]
              /\ Working' /\ Waiting' /\ AnswersMatchStore'
  <2>1. ws' = [ws EXCEPT !.pc = "tell"] /\ fate' = fate /\ told' = told
    BY <1>2, <1>15 DEF WsSaves
  <2>2. /\ ws' \in [pc : {"off", "idle"} \cup WsBusyPcs, frame : Frames \cup {NoFrame},
                    text : Replies \cup {"none", "image"}]
        /\ ws'.pc = "tell" /\ ws'.frame = f /\ ws'.text = text
    BY <1>2, <1>3, <2>1, WsTypes DEF WsBusyPcs
  <2>3. Working'
    BY <1>1, <1>4, <1>11, <1>15, <2>1, <2>2 DEF Working, WsBusyPcs
  <2>4. Waiting'
    <3>1. \A g \in Frames : fate[g] \in {"unsent", "waiting"} => g # f
      BY <1>4
    <3>. QED BY <1>1, <1>12, <2>1, <3>1 DEF Waiting
  <2>5. AnswersMatchStore'
    <3>1. ASSUME NEW g \in Frames
          PROVE  /\ fate[g] = "done" /\ frame[g].kind = "plain" =>
                      \/ told[g] = <<"error">>
                      \/ \E x \in Replies : /\ told[g] = <<x>>
                                            /\ IsStored(g, x)' \/ g \in unsaved'
                 /\ fate[g] = "done" /\ frame[g].kind = "secret" =>
                      \/ told[g] \in {<<"error">>, <<"http", "error">>}
                      \/ told[g] = <<>> /\ (IsStored(g, "image")' \/ g \in unsaved')
                 /\ told[g] # <<>> /\ Stored(g)' => told[g][Len(told[g])] # "error"
      <4>1. CASE g = f
        BY <1>4, <4>1
      <4>2. CASE g # f
        <5>1. \A x \in Replies \cup {"image"} : IsStored(g, x) => IsStored(g, x)'
          BY <1>8, <1>10, GrowingKeeps
        <5>. QED BY <1>8, <1>12, <4>2, <5>1 DEF AnswersMatchStore
      <4>. QED BY <4>1, <4>2
    <3>. QED BY <1>1, <2>1, <3>1 DEF AnswersMatchStore
  <2>. QED BY <1>4, <2>1, <2>2, <2>3, <2>4, <2>5, WsTypes
<1>16. /\ fate' \in [Frames -> {"unsent", "waiting", "taken", "done", "lost"}]
       /\ told' \in [Frames -> Answers]
       /\ ws' \in [pc : {"off", "idle"} \cup WsBusyPcs, frame : Frames \cup {NoFrame},
                   text : Replies \cup {"none", "image"}]
       /\ ws'.pc \in {"idle", "tell"} /\ fate'[f] \in {"done", "taken"}
       /\ \A g \in Frames : g # f => fate'[g] = fate[g] /\ told'[g] = told[g]
       /\ Working' /\ Waiting' /\ AnswersMatchStore'
  BY <1>4, <1>14, <1>15
<1>17. SecretMessagesTypeOK'
  <2>1. DeliveryTypeOK'
    <3>. HIDE DEF IInv
    <3>1. DeliveryTypeOK
      BY DEF IInv, SecretMessagesTypeOK
    <3>. QED BY <1>1, <1>6, <1>8, <1>16, <3>1 DEF DeliveryTypeOK, Answers, ChatRow
  <2>. QED BY <2>1 DEF SecretMessagesTypeOK, secretsVars, readerVars
<1>18. Making'
  BY <1>13, <1>16 DEF Making
<1>19. ListedSecretsAreComplete'
  <2>1. \A i \in 1..Len(chat) : chat'[i].text = "image" =>
          /\ images'[chat'[i].frame] # "none"
          /\ chat'[i].frame \in texts'
          /\ HasSecretRow(chat[i].frame, chat[i].at)' /\ chat'[i] = chat[i]
    BY <1>8, <1>10, StoreKeeps DEF secretsVars
  <2>2. text = "image" => /\ images'[row.frame] # "none" /\ row.frame \in texts'
                          /\ \E j \in 1..Len(secrets') : secrets'[j].frame = row.frame
                                                         /\ secrets'[j].at <= row.at
    BY <1>1, <1>2, <1>3, <1>9 DEF Making, HasSecretRow, secretsVars
  <2>. QED BY <1>8, <1>9, <2>1, <2>2 DEF ListedSecretsAreComplete, HasSecretRow
<1>20. OrphansAreExplained'
  <2>1. \A g \in Frames : fate[g] = "lost" => fate'[g] = "lost"
    BY <1>4, <1>16
  <2>2. \A g \in Frames : told[g] # <<>> => told'[g] = told[g]
    BY <1>4, <1>16
  <2>3. Stored(f)' \/ f \in unsaved'
    BY <1>11 DEF IsStored, Stored
  <2>. QED BY <1>2, <1>8, <2>1, <2>2, <2>3, OrphansKeep DEF secretsVars
<1>21. Opened' /\ DecryptionIsSound' /\ Reading'
  BY <1>1, <1>8, <1>10, ReaderStays DEF secretsVars, readerVars
<1>. QED BY <1>16, <1>17, <1>18, <1>19, <1>20, <1>21
-----------------------------------------------------------------------------
(* Clients, the clock and the start of the thread.                         *)

LEMMA WsStartsIInv ==
  ASSUME IInv, WsStarts, UNCHANGED <<secretsVars, readerVars>>
  PROVE  IInv'
<1>. USE DEF IInv
<1>1. /\ ws.pc = "off" /\ ws' = WsIdle /\ wsdb' = "open"
      /\ UNCHANGED <<frame, fate, inbox, told, chat, unsaved, clock>>
  BY DEF WsStarts
<1>2. ws'.pc = "idle" /\ "idle" \notin WsBusyPcs /\ ws.pc \notin WsBusyPcs
  BY <1>1, WsTypes
<1>3. \A f \in Frames : fate[f] # "taken"
  BY <1>2, NobodyElse
<1>4. \A g : /\ Stored(g)' <=> Stored(g)
             /\ HasSecret(g)' <=> HasSecret(g)
             /\ \A y : IsStored(g, y)' <=> IsStored(g, y)
  BY <1>1 DEF Stored, HasSecret, IsStored, secretsVars
<1>5. SecretMessagesTypeOK'
  <2>1. DeliveryTypeOK'
    <3>. HIDE DEF IInv
    <3>1. DeliveryTypeOK
      BY DEF IInv, SecretMessagesTypeOK
    <3>. QED BY <1>1, <3>1 DEF DeliveryTypeOK, WsIdle
  <2>. QED BY <2>1 DEF SecretMessagesTypeOK, secretsVars, readerVars
<1>6. Working' /\ Making'
  BY <1>1, <1>2, <1>3, <1>4 DEF Working, Making, WsBusyPcs
<1>7. Waiting' /\ AnswersMatchStore'
  BY <1>1, <1>4 DEF Waiting, AnswersMatchStore
<1>8. /\ ListedSecretsAreComplete' /\ OrphansAreExplained'
      /\ Opened' /\ DecryptionIsSound' /\ Reading'
  BY <1>1, NothingIsStored
<1>. QED BY <1>5, <1>6, <1>7, <1>8

LEMMA ClientSendsIInv ==
  ASSUME IInv, NEW f \in Frames, ClientSends(f), UNCHANGED <<secretsVars, readerVars>>
  PROVE  IInv'
<1>. USE DEF IInv
<1>1. /\ fate[f] = "unsent" /\ fate' = [fate EXCEPT ![f] = "waiting"]
      /\ inbox' = Append(inbox, f)
      /\ UNCHANGED <<frame, ws, wsdb, told, chat, unsaved, clock>>
  BY DEF ClientSends
<1>2. /\ fate' \in [Frames -> {"unsent", "waiting", "taken", "done", "lost"}]
      /\ fate'[f] = "waiting" /\ \A g \in Frames : g # f => fate'[g] = fate[g]
  BY <1>1, WsTypes
<1>3. /\ inbox' \in Seq(Frames) /\ Len(inbox') = Len(inbox) + 1
      /\ \A i \in 1..Len(inbox) : inbox'[i] = inbox[i]
      /\ inbox'[Len(inbox) + 1] = f
      /\ inbox \in Seq(Frames) /\ Len(inbox) \in Nat
  BY <1>1, Types, AppendProperties
<1>4. \A i \in 1..Len(inbox') : i \in 1..Len(inbox) \/ i = Len(inbox) + 1
  BY <1>3, SMT
<1>5. \A i \in 1..Len(inbox) : inbox[i] \in Frames /\ inbox[i] # f
                               /\ fate[inbox[i]] = "waiting"
  BY <1>1, Types DEF Waiting
<1>6. \A g : /\ Stored(g)' <=> Stored(g)
             /\ HasSecret(g)' <=> HasSecret(g)
             /\ \A y : IsStored(g, y)' <=> IsStored(g, y)
  BY <1>1 DEF Stored, HasSecret, IsStored, secretsVars
<1>7. Waiting'
  <2>1. \A i \in 1..Len(inbox') : fate'[inbox'[i]] = "waiting"
    <3>1. fate'[inbox'[Len(inbox) + 1]] = "waiting"
      BY <1>2, <1>3
    <3>2. \A i \in 1..Len(inbox) : fate'[inbox'[i]] = "waiting"
      BY <1>2, <1>3, <1>5, ZenonT(30)
    <3>. QED BY <1>4, <3>1, <3>2
  <2>2. \A i, j \in 1..Len(inbox') : inbox'[i] = inbox'[j] => i = j
    BY <1>3, <1>4, <1>5 DEF Waiting
  <2>3. /\ \A g \in Frames : fate'[g] \in {"unsent", "waiting"} => ~Stored(g)'
        /\ \A g \in Frames : fate'[g] # "done" => told'[g] = <<>>
    BY <1>1, <1>2, <1>6 DEF Waiting
  <2>. QED BY <2>1, <2>2, <2>3 DEF Waiting
<1>8. SecretMessagesTypeOK'
  <2>1. DeliveryTypeOK'
    <3>. HIDE DEF IInv
    <3>1. DeliveryTypeOK
      BY DEF IInv, SecretMessagesTypeOK
    <3>. QED BY <1>1, <1>2, <1>3, <3>1 DEF DeliveryTypeOK
  <2>. QED BY <2>1 DEF SecretMessagesTypeOK, secretsVars, readerVars
<1>9. Working'
  BY <1>1, <1>2, <1>6 DEF Working
<1>10. AnswersMatchStore'
  <2>1. \A g \in Frames : fate'[g] = "done" => fate[g] = "done"
    BY <1>2
  <2>. QED BY <1>1, <1>6, <2>1 DEF AnswersMatchStore
<1>11. Making'
  <2>1. HasSecretRow(ws.frame, clock)' <=> HasSecretRow(ws.frame, clock)
    BY <1>1 DEF HasSecretRow, secretsVars
  <2>. QED BY <1>1, <1>2, <1>6, <2>1 DEF Making, secretsVars
<1>12. ListedSecretsAreComplete' /\ OrphansAreExplained'
  <2>1. ChatGrows /\ Len(chat') \in Nat
    BY <1>1, Types, SMT DEF ChatGrows
  <2>2. OrphansAreExplained'
    BY <1>1, <1>2, <2>1, OrphansKeep DEF secretsVars
  <2>. QED BY <1>1, <2>2 DEF ListedSecretsAreComplete, HasSecretRow, secretsVars
<1>13. Opened' /\ DecryptionIsSound' /\ Reading'
  <2>1. ChatGrows /\ SecretsGrow /\ Len(chat') \in Nat /\ Len(secrets') \in Nat
    BY <1>1, Types, SMT DEF ChatGrows, SecretsGrow, secretsVars
  <2>. QED BY <1>1, <2>1, ReaderStays DEF secretsVars, readerVars
<1>. QED BY <1>7, <1>8, <1>9, <1>10, <1>11, <1>12, <1>13

LEMMA ClockTicksIInv ==
  ASSUME IInv, ClockTicks, UNCHANGED <<secretsVars, readerVars>>
  PROVE  IInv'
<1>. USE DEF IInv
<1>1. /\ clock < MaxTime /\ clock' = clock + 1
      /\ UNCHANGED <<frame, fate, inbox, ws, wsdb, told, chat, unsaved>>
  BY DEF ClockTicks
<1>2. clock' \in 1..MaxTime /\ clock \in 1..MaxTime /\ clock <= clock'
  BY <1>1, Types, SMT
<1>3. SecretMessagesTypeOK'
  <2>1. DeliveryTypeOK'
    <3>. HIDE DEF IInv
    <3>1. DeliveryTypeOK
      BY DEF IInv, SecretMessagesTypeOK
    <3>. QED BY <1>1, <1>2, <3>1 DEF DeliveryTypeOK
  <2>. QED BY <2>1 DEF SecretMessagesTypeOK, secretsVars, readerVars
<1>4. Working' /\ Waiting' /\ AnswersMatchStore'
  BY <1>1 DEF Working, Waiting, AnswersMatchStore, Stored, IsStored
<1>5. Making'
  <2>1. HasSecretRow(ws.frame, clock) => HasSecretRow(ws.frame, clock)'
    <3>1. \A j \in 1..Len(secrets) : secrets[j].at \in Nat
      BY Types DEF SecretRow
    <3>. QED BY <1>1, <1>2, <3>1, SMT DEF HasSecretRow, secretsVars
  <2>. QED BY <1>1, <2>1 DEF Making, HasSecret, secretsVars
<1>6. ListedSecretsAreComplete' /\ OrphansAreExplained'
  BY <1>1 DEF ListedSecretsAreComplete, HasSecretRow, OrphansAreExplained, Stored, secretsVars
<1>7. Opened' /\ DecryptionIsSound' /\ Reading'
  <2>1. ChatGrows /\ SecretsGrow /\ Len(chat') \in Nat /\ Len(secrets') \in Nat
    BY <1>1, Types, SMT DEF ChatGrows, SecretsGrow, secretsVars
  <2>. QED BY <1>1, <2>1, ReaderStays DEF secretsVars, readerVars
<1>. QED BY <1>3, <1>4, <1>5, <1>6, <1>7
-----------------------------------------------------------------------------
(* handle_encrypt_message.                                                 *)

LEMMA OrphansFollow ==
  ASSUME \A j \in 1..Len(secrets') : \E g \in Frames :
           /\ g = secrets'[j].frame
           /\ \/ Stored(g)' \/ g \in unsaved'
              \/ ws'.pc = "save" /\ ws'.frame = g
              \/ fate'[g] = "lost" \/ told'[g] = <<"http", "error">>
  PROVE  OrphansAreExplained'
<1>1. ASSUME NEW j \in 1..Len(secrets')
      PROVE  LET g == secrets'[j].frame IN
               \/ \E i \in 1..Len(chat') : chat'[i].frame = g
               \/ g \in unsaved'
               \/ ws'.pc = "save" /\ ws'.frame = g
               \/ fate'[g] = "lost" \/ told'[g] = <<"http", "error">>
  BY DEF Stored
<1>. QED BY <1>1 DEF OrphansAreExplained, Stored

\* Where the explanation of a stored secret lies, unless the thread is about to list it.
LEMMA Unexplained ==
  ASSUME IInv, ws.pc # "save", NEW j \in 1..Len(secrets), NEW g, g = secrets[j].frame
  PROVE  Stored(g) \/ g \in unsaved \/ fate[g] = "lost" \/ told[g] = <<"http", "error">>
BY DEF IInv, OrphansAreExplained

\* A step that makes something for its frame, or fails.
LEMMA MakingStep ==
  ASSUME IInv, NEW f \in Frames, f = ws.frame, ws.pc \in {"embed", "encode", "insert"},
         UNCHANGED <<frame, inbox, wsdb, chat, unsaved, clock, readerVars>>,
         env => env', env' \in BOOLEAN,
         images' \in [Frames -> {"none", "whole", "cut"}],
         texts' \subseteq Frames,
         \A g \in Frames : g # f => images'[g] = images[g] /\ (g \in texts' <=> g \in texts),
         images[f] # "none" => images'[f] # "none",
         f \in texts => f \in texts',
         secrets' \in Seq(SecretRow), SecretsGrow,
         \A j \in 1..Len(secrets') : j \in 1..Len(secrets) \/ secrets'[j].frame = f,
         \/ Ends(f, <<"http", "error">>)
         \/ /\ ws' \in [pc : {"off", "idle"} \cup WsBusyPcs, frame : Frames \cup {NoFrame},
                        text : Replies \cup {"none", "image"}]
            /\ ws'.frame = f /\ UNCHANGED <<fate, told>>
            /\ \/ ws'.pc = "encode" /\ ~HasSecret(f)' /\ images'[f] # "none"
               \/ /\ ws'.pc = "insert" /\ ~HasSecret(f)'
                  /\ images'[f] # "none" /\ f \in texts'
               \/ /\ ws'.pc = "save" /\ ws'.text = "image" /\ HasSecretRow(f, clock)'
                  /\ images'[f] # "none" /\ f \in texts'
  PROVE  IInv'
<1>. USE DEF IInv
<1>1. /\ fate[f] = "taken" /\ told[f] = <<>> /\ ~HasSecret(f) /\ ~Stored(f)
      /\ frame[f].kind = "secret" /\ ws.pc \in WsBusyPcs \ {"save", "tell"}
  BY NobodyElse DEF Making, Working, WsBusyPcs
<1>2. Len(secrets') \in Nat /\ ChatGrows /\ Len(chat') \in Nat
  BY Types, SMT DEF ChatGrows
<1>3. \A g : Stored(g)' <=> Stored(g)
  BY DEF Stored
<1>4. \A g \in Frames : g # f => (HasSecret(g)' <=> HasSecret(g))
  <2>1. \A g \in Frames : HasSecret(g) => HasSecret(g)'
    BY <1>2, GrowingKeeps
  <2>2. \A g \in Frames : g # f /\ HasSecret(g)' => HasSecret(g)
    BY DEF HasSecret, SecretsGrow
  <2>. QED BY <2>1, <2>2
<1>5. \A g \in Frames : HasSecret(g) => images'[g] = images[g]
  BY <1>1
<1>6. Opened' /\ DecryptionIsSound' /\ Reading'
  BY <1>2, <1>5, ReaderStays DEF readerVars
<1>7. ListedSecretsAreComplete'
  <2>1. /\ \A g \in Frames : images[g] # "none" => images'[g] # "none"
        /\ \A g \in Frames : g \in texts => g \in texts'
    OBVIOUS
  <2>2. \A i \in 1..Len(chat) : chat'[i].text = "image" =>
          /\ images'[chat'[i].frame] # "none"
          /\ chat'[i].frame \in texts'
          /\ HasSecretRow(chat[i].frame, chat[i].at)' /\ chat'[i] = chat[i]
    BY <1>2, <2>1, StoreKeeps
  <2>. QED BY <2>2 DEF ListedSecretsAreComplete, HasSecretRow
<1>8. \A j \in 1..Len(secrets') : \/ secrets'[j].frame = f
                                  \/ /\ j \in 1..Len(secrets) /\ secrets'[j] = secrets[j]
                                     /\ secrets[j].frame \in Frames /\ secrets[j].frame # f
  BY <1>1, Types DEF SecretsGrow, HasSecret
<1>9. CASE Ends(f, <<"http", "error">>)
  <2>1. /\ DeliveryTypeOK' /\ Working' /\ Waiting' /\ AnswersMatchStore'
        /\ ws'.pc = "idle" /\ fate'[f] = "done" /\ told'[f] = <<"http", "error">>
        /\ \A g \in Frames : g # f => fate'[g] = fate[g] /\ told'[g] = told[g]
    BY <1>1, <1>2, <1>9, Literals, FailsKeeps
  <2>2. SecretMessagesTypeOK'
    BY <2>1 DEF SecretMessagesTypeOK, SecretRow, readerVars
  <2>3. Making'
    BY <1>4, <2>1 DEF Making
  <2>4. OrphansAreExplained'
    <3>1. ASSUME NEW j \in 1..Len(secrets')
          PROVE  \E g \in Frames :
                   /\ g = secrets'[j].frame
                   /\ \/ Stored(g)' \/ g \in unsaved'
                      \/ ws'.pc = "save" /\ ws'.frame = g
                      \/ fate'[g] = "lost" \/ told'[g] = <<"http", "error">>
      <4>1. CASE secrets'[j].frame = f
        BY <2>1, <4>1
      <4>2. CASE secrets'[j].frame # f
        <5>1. PICK g \in Frames : j \in 1..Len(secrets) /\ g = secrets[j].frame /\ g # f
                                  /\ g = secrets'[j].frame
          BY <1>8, <4>2
        <5>a. ws.pc # "save" /\ j \in 1..Len(secrets) /\ g = secrets[j].frame
          BY <1>1, <5>1
        <5>2. Stored(g) \/ g \in unsaved \/ fate[g] = "lost" \/ told[g] = <<"http", "error">>
          <6>. HIDE DEF IInv
          <6>. QED BY <5>a, Unexplained
        <5>3. fate'[g] = fate[g] /\ told'[g] = told[g] /\ (Stored(g)' <=> Stored(g))
              /\ unsaved' = unsaved
          BY <1>3, <2>1, <5>1
        <5>. QED BY <5>1, <5>2, <5>3
      <4>. QED BY <4>1, <4>2
    <3>. QED BY <3>1, OrphansFollow
  <2>. QED BY <1>6, <1>7, <2>1, <2>2, <2>3, <2>4
<1>10. CASE /\ ws' \in [pc : {"off", "idle"} \cup WsBusyPcs, frame : Frames \cup {NoFrame},
                        text : Replies \cup {"none", "image"}]
            /\ ws'.frame = f /\ UNCHANGED <<fate, told>>
            /\ \/ ws'.pc = "encode" /\ ~HasSecret(f)' /\ images'[f] # "none"
               \/ /\ ws'.pc = "insert" /\ ~HasSecret(f)'
                  /\ images'[f] # "none" /\ f \in texts'
               \/ /\ ws'.pc = "save" /\ ws'.text = "image" /\ HasSecretRow(f, clock)'
                  /\ images'[f] # "none" /\ f \in texts'
  <2>1. ws'.pc \in {"encode", "insert", "save"}
    BY <1>10
  <2>2. Working' /\ Waiting' /\ AnswersMatchStore'
    <3>1. PICK pc \in WsBusyPcs \ {"tell"} : ws'.pc = pc
      BY <2>1 DEF WsBusyPcs
    <3>2. ws'.frame = ws.frame /\ UNCHANGED <<frame, fate, inbox, told, chat, unsaved>>
      BY <1>10
    <3>3. /\ pc \in {"embed", "encode", "insert"} => frame[ws.frame].kind = "secret"
          /\ pc = "save" => IF frame[ws.frame].kind = "secret" THEN ws'.text = "image"
                            ELSE ws'.text \in Replies
      BY <1>1, <1>10, <3>1
    <3>4. ws.pc \in WsBusyPcs /\ ws.pc # "tell"
      BY <1>1
    <3>. QED BY <3>1, <3>2, <3>3, <3>4, BusyKeeps
  <2>3. SecretMessagesTypeOK'
    <3>1. DeliveryTypeOK'
      <4>. HIDE DEF IInv
      <4>1. DeliveryTypeOK
        BY DEF IInv, SecretMessagesTypeOK
      <4>. QED BY <1>10, <4>1 DEF DeliveryTypeOK
    <3>. QED BY <3>1 DEF SecretMessagesTypeOK, SecretRow, readerVars
  <2>4. Making'
    <3>1. \A g \in Frames : fate'[g] \in {"unsent", "waiting"} => ~HasSecret(g)'
      BY <1>1, <1>4, <1>10 DEF Making
    <3>. QED BY <1>10, <3>1 DEF Making
  <2>5. OrphansAreExplained'
    <3>1. ASSUME NEW j \in 1..Len(secrets')
          PROVE  \E g \in Frames :
                   /\ g = secrets'[j].frame
                   /\ \/ Stored(g)' \/ g \in unsaved'
                      \/ ws'.pc = "save" /\ ws'.frame = g
                      \/ fate'[g] = "lost" \/ told'[g] = <<"http", "error">>
      <4>1. CASE secrets'[j].frame = f
        <5>1. HasSecret(f)'
          BY <4>1 DEF HasSecret
        <5>2. ws'.pc = "save" /\ ws'.frame = f
          BY <1>10, <5>1
        <5>. QED BY <4>1, <5>2
      <4>2. CASE secrets'[j].frame # f
        <5>1. PICK g \in Frames : j \in 1..Len(secrets) /\ g = secrets[j].frame /\ g # f
                                  /\ g = secrets'[j].frame
          BY <1>8, <4>2
        <5>a. ws.pc # "save" /\ j \in 1..Len(secrets) /\ g = secrets[j].frame
          BY <1>1, <5>1
        <5>2. Stored(g) \/ g \in unsaved \/ fate[g] = "lost" \/ told[g] = <<"http", "error">>
          <6>. HIDE DEF IInv
          <6>. QED BY <5>a, Unexplained
        <5>3. fate'[g] = fate[g] /\ told'[g] = told[g] /\ (Stored(g)' <=> Stored(g))
              /\ unsaved' = unsaved
          BY <1>3, <1>10
        <5>. QED BY <5>1, <5>2, <5>3
      <4>. QED BY <4>1, <4>2
    <3>. QED BY <3>1, OrphansFollow
  <2>. QED BY <1>6, <1>7, <2>2, <2>3, <2>4, <2>5
<1>. QED BY <1>9, <1>10

LEMMA EmbedIInv ==
  ASSUME IInv, Embed
  PROVE  IInv'
<1>1. /\ ws.pc = "embed" /\ env' = TRUE
      /\ UNCHANGED <<frame, inbox, wsdb, chat, unsaved, clock, texts, secrets, readerVars>>
  BY DEF Embed
<1>2. PICK f \in Frames : f = ws.frame
  BY <1>1, NobodyElse DEF WsBusyPcs
<1>3. /\ images \in [Frames -> {"none", "whole", "cut"}]
      /\ texts \subseteq Frames
      /\ secrets \in Seq(SecretRow) /\ SecretsGrow
  BY <1>1, Types, SMT DEF IInv, SecretMessagesTypeOK, SecretsGrow
<1>4. \/ Ends(f, <<"http", "error">>) /\ images' = images
      \/ /\ \E held \in {"whole", "cut"} : images' = [images EXCEPT ![f] = held]
         /\ ws' = [ws EXCEPT !.pc = "encode"]
         /\ UNCHANGED <<fate, told>>
  BY <1>2 DEF Embed, Gives500
<1>5. ws.pc \in {"embed", "encode", "insert"} /\ env' \in BOOLEAN /\ (env => env')
  BY <1>1
<1>6. /\ secrets' \in Seq(SecretRow)
      /\ texts' \subseteq Frames
      /\ texts' = texts
      /\ \A j \in 1..Len(secrets') : j \in 1..Len(secrets) \/ secrets'[j].frame = f
  BY <1>1, <1>3
<1>7. UNCHANGED <<frame, inbox, wsdb, chat, unsaved, clock, readerVars>>
  BY <1>1
<1>8. CASE Ends(f, <<"http", "error">>) /\ images' = images
  <2>1. images' \in [Frames -> {"none", "whole", "cut"}]
    BY <1>3, <1>8
  <2>. QED BY <1>2, <1>3, <1>5, <1>6, <1>7, <1>8, <2>1, MakingStep
<1>9. CASE /\ \E held \in {"whole", "cut"} : images' = [images EXCEPT ![f] = held]
           /\ ws' = [ws EXCEPT !.pc = "encode"]
           /\ UNCHANGED <<fate, told>>
  <2>1. /\ images' \in [Frames -> {"none", "whole", "cut"}]
        /\ images'[f] # "none" /\ \A g \in Frames : g # f => images'[g] = images[g]
    BY <1>3, <1>9
  <2>2. /\ ws' \in [pc : {"off", "idle"} \cup WsBusyPcs, frame : Frames \cup {NoFrame},
                    text : Replies \cup {"none", "image"}]
        /\ ws'.frame = f /\ ws'.pc = "encode"
    BY <1>2, <1>9, WsTypes DEF IInv, WsBusyPcs
  <2>3. ~HasSecret(f)'
    BY <1>1, <1>2 DEF IInv, Making, HasSecret
  <2>. QED BY <1>2, <1>3, <1>5, <1>6, <1>7, <1>9, <2>1, <2>2, <2>3, MakingStep
<1>. QED BY <1>4, <1>8, <1>9

LEMMA EncodeIInv ==
  ASSUME IInv, Encode
  PROVE  IInv'
<1>1. /\ ws.pc = "encode"
      /\ UNCHANGED <<frame, inbox, wsdb, chat, unsaved, clock, images, secrets, env,
                     readerVars>>
  BY DEF Encode
<1>2. PICK f \in Frames : f = ws.frame
  BY <1>1, NobodyElse DEF WsBusyPcs
<1>3. /\ images \in [Frames -> {"none", "whole", "cut"}]
      /\ texts \subseteq Frames
      /\ secrets \in Seq(SecretRow) /\ SecretsGrow /\ env \in BOOLEAN
  BY <1>1, Types, SMT DEF IInv, SecretMessagesTypeOK, SecretsGrow
<1>4. \/ Ends(f, <<"http", "error">>) /\ texts' = texts
      \/ /\ texts' = texts \cup {f}
         /\ ws' = [ws EXCEPT !.pc = "insert"]
         /\ UNCHANGED <<fate, told>>
  BY <1>2 DEF Encode, Gives500
<1>5. ws.pc \in {"embed", "encode", "insert"} /\ env' \in BOOLEAN /\ (env => env')
  BY <1>1, <1>3
<1>6. /\ secrets' \in Seq(SecretRow)
      /\ images' \in [Frames -> {"none", "whole", "cut"}]
      /\ images' = images
      /\ \A j \in 1..Len(secrets') : j \in 1..Len(secrets) \/ secrets'[j].frame = f
  BY <1>1, <1>3
<1>7. UNCHANGED <<frame, inbox, wsdb, chat, unsaved, clock, readerVars>>
  BY <1>1
<1>8. CASE Ends(f, <<"http", "error">>) /\ texts' = texts
  <2>1. texts' \subseteq Frames
    BY <1>3, <1>8
  <2>. QED BY <1>2, <1>3, <1>5, <1>6, <1>7, <1>8, <2>1, MakingStep
<1>9. CASE /\ texts' = texts \cup {f}
           /\ ws' = [ws EXCEPT !.pc = "insert"]
           /\ UNCHANGED <<fate, told>>
  <2>1. /\ texts' \subseteq Frames
        /\ f \in texts' /\ \A g \in Frames : g # f => (g \in texts' <=> g \in texts)
    BY <1>3, <1>9
  <2>2. /\ ws' \in [pc : {"off", "idle"} \cup WsBusyPcs, frame : Frames \cup {NoFrame},
                    text : Replies \cup {"none", "image"}]
        /\ ws'.frame = f /\ ws'.pc = "insert"
    BY <1>2, <1>9, WsTypes DEF IInv, WsBusyPcs
  <2>3. ~HasSecret(f)' /\ images'[f] # "none"
    BY <1>1, <1>2 DEF IInv, Making, HasSecret
  <2>. QED BY <1>2, <1>3, <1>5, <1>6, <1>7, <1>9, <2>1, <2>2, <2>3, MakingStep
<1>. QED BY <1>4, <1>8, <1>9

LEMMA InsertSecretIInv ==
  ASSUME IInv, InsertSecret
  PROVE  IInv'
<1>1. /\ ws.pc = "insert"
      /\ UNCHANGED <<frame, inbox, wsdb, chat, unsaved, clock, images, texts, env, readerVars>>
  BY DEF InsertSecret
<1>2. PICK f \in Frames : f = ws.frame
  BY <1>1, NobodyElse DEF WsBusyPcs
<1>3. /\ images' \in [Frames -> {"none", "whole", "cut"}] /\ images' = images
      /\ texts' \subseteq Frames /\ texts' = texts
      /\ env' \in BOOLEAN /\ (env => env')
  BY <1>1 DEF IInv, SecretMessagesTypeOK
<1>4. \/ Ends(f, <<"http", "error">>) /\ secrets' = secrets
      \/ /\ secrets' = Append(secrets, [frame |-> f, at |-> clock])
         /\ \/ ws' = [ws EXCEPT !.pc = "save", !.text = "image"] /\ UNCHANGED <<fate, told>>
            \/ Ends(f, <<"http", "error">>)
  BY <1>2 DEF InsertSecret, Gives500
<1>5. ws.pc \in {"embed", "encode", "insert"}
  BY <1>1
<1>6. UNCHANGED <<frame, inbox, wsdb, chat, unsaved, clock, readerVars>>
  BY <1>1
<1>7. CASE Ends(f, <<"http", "error">>) /\ secrets' = secrets
  <2>1. /\ secrets' \in Seq(SecretRow) /\ SecretsGrow
        /\ \A j \in 1..Len(secrets') : j \in 1..Len(secrets) \/ secrets'[j].frame = f
    BY <1>7, Types, SMT DEF IInv, SecretsGrow
  <2>. QED BY <1>2, <1>3, <1>5, <1>6, <1>7, <2>1, MakingStep
<1>8. CASE /\ secrets' = Append(secrets, [frame |-> f, at |-> clock])
           /\ \/ ws' = [ws EXCEPT !.pc = "save", !.text = "image"] /\ UNCHANGED <<fate, told>>
              \/ Ends(f, <<"http", "error">>)
  <2>1. PICK row \in SecretRow : row = [frame |-> f, at |-> clock]
    BY Types DEF IInv, SecretRow
  <2>2. secrets' = Append(secrets, row) /\ SecretMessagesTypeOK
    BY <1>8, <2>1 DEF IInv
  <2>3. /\ secrets' \in Seq(SecretRow) /\ SecretsGrow
        /\ Len(secrets) + 1 \in 1..Len(secrets') /\ secrets'[Len(secrets) + 1] = row
        /\ \A j \in 1..Len(secrets') : j \in 1..Len(secrets) \/ j = Len(secrets) + 1
    BY <2>2, SecretsAppend
  <2>4. \A j \in 1..Len(secrets') : j \in 1..Len(secrets) \/ secrets'[j].frame = f
    BY <2>1, <2>3
  <2>5. HasSecretRow(f, clock)'
    <3>1. row.frame = f /\ row.at = clock /\ clock' = clock /\ clock <= clock
      BY <1>1, <2>1, Types, SMT DEF IInv
    <3>. QED BY <2>3, <3>1 DEF HasSecretRow
  <2>6. images'[f] # "none" /\ f \in texts'
    BY <1>1, <1>2 DEF IInv, Making
  <2>7. CASE Ends(f, <<"http", "error">>)
    BY <1>2, <1>3, <1>5, <1>6, <2>3, <2>4, <2>7, MakingStep
  <2>8. CASE ws' = [ws EXCEPT !.pc = "save", !.text = "image"] /\ UNCHANGED <<fate, told>>
    <3>1. /\ ws' \in [pc : {"off", "idle"} \cup WsBusyPcs, frame : Frames \cup {NoFrame},
                      text : Replies \cup {"none", "image"}]
          /\ ws'.frame = f /\ ws'.pc = "save" /\ ws'.text = "image"
      BY <1>2, <2>8, WsTypes DEF IInv, WsBusyPcs
    <3>. QED BY <1>2, <1>3, <1>5, <1>6, <2>3, <2>4, <2>5, <2>6, <2>8, <3>1, MakingStep
  <2>. QED BY <1>8, <2>7, <2>8
<1>. QED BY <1>4, <1>7, <1>8
-----------------------------------------------------------------------------
(* The HTTP thread.                                                        *)

HttpPcs == {"idle", "decrypt", "history", "answered"}
MaybeAsks == Asks \cup {NoAsk}
MaybeFrames == Frames \cup {NoFrame}
HttpType == [pc : HttpPcs, ask : MaybeAsks, row : MaybeFrames, rows : Nat, unread : SUBSET Nat]

Codes == {0, 200, 403, 500}
Lists == Seq(Frames)
AnswerType == [code : Codes, secret : MaybeFrames, entries : Lists]

LEMMA FieldTypes ==
  /\ "idle" \in HttpPcs /\ "decrypt" \in HttpPcs /\ "history" \in HttpPcs
  /\ "answered" \in HttpPcs
  /\ NoAsk \in MaybeAsks /\ \A ask \in Asks : ask \in MaybeAsks
  /\ NoFrame \in MaybeFrames /\ \A f \in Frames : f \in MaybeFrames
  /\ 0 \in Codes /\ 200 \in Codes /\ 403 \in Codes /\ 500 \in Codes
  /\ <<>> \in Lists
BY DEF HttpPcs, MaybeAsks, MaybeFrames, Codes, Lists

LEMMA ReaderTypes ==
  ASSUME SecretMessagesTypeOK
  PROVE  /\ http \in HttpType /\ answer \in AnswerType
         /\ HttpIdle \in HttpType /\ HttpIdle.pc = "idle" /\ HttpIdle.ask = NoAsk
         /\ HttpIdle.rows = 0
         /\ NoAnswer \in AnswerType /\ NoAnswer.code = 0 /\ NoAnswer.secret = NoFrame
         /\ NoAnswer.entries = <<>>
         /\ \A ask \in Asks : ask # NoAsk
         /\ NoFrame \notin Frames
<1>1. \A ask \in Asks : ask # NoAsk
  <2>1. NoAsk.at = 0
    BY DEF NoAsk
  <2>2. \A ask \in Asks : ask.at \in 1..MaxTime
    BY DEF Asks
  <2>. QED BY <2>1, <2>2, SMT
<1>2. HttpIdle \in HttpType /\ HttpIdle.pc = "idle" /\ HttpIdle.ask = NoAsk /\ HttpIdle.rows = 0
  BY FieldTypes DEF HttpIdle, HttpType
<1>3. /\ NoAnswer \in AnswerType /\ NoAnswer.code = 0 /\ NoAnswer.secret = NoFrame
      /\ NoAnswer.entries = <<>>
  BY FieldTypes DEF NoAnswer, AnswerType
<1>4. NoFrame \notin Frames
  BY DEF NoFrame
<1>. QED BY <1>1, <1>2, <1>3, <1>4 DEF SecretMessagesTypeOK, HttpType, AnswerType, HttpPcs,
                                       MaybeAsks, MaybeFrames, Codes, Lists

\* What an assignment to a field of the two records leaves.
WithCode(a, code) == [a EXCEPT !.code = code]
WithSecret(a, code, secret) == [a EXCEPT !.code = code, !.secret = secret]
WithEntries(a, entries) == [a EXCEPT !.entries = entries]

LEMMA AnswerFields ==
  \A a \in AnswerType, code \in Codes :
    /\ WithCode(a, code) \in AnswerType
    /\ WithCode(a, code).code = code
    /\ WithCode(a, code).secret = a.secret
    /\ WithCode(a, code).entries = a.entries
BY DEF AnswerType, WithCode

LEMMA SecretFields ==
  \A a \in AnswerType, code \in Codes, secret \in MaybeFrames :
    /\ WithSecret(a, code, secret) \in AnswerType
    /\ WithSecret(a, code, secret).code = code
    /\ WithSecret(a, code, secret).secret = secret
BY DEF AnswerType, WithSecret

LEMMA AnswerEntries ==
  \A a \in AnswerType, entries \in Lists :
    /\ WithEntries(a, entries) \in AnswerType
    /\ WithEntries(a, entries).code = a.code
    /\ WithEntries(a, entries).secret = a.secret
    /\ WithEntries(a, entries).entries = entries
BY DEF AnswerType, WithEntries

LEMMA HttpMoves ==
  ASSUME NEW h \in HttpType
  PROVE  /\ [h EXCEPT !.pc = "answered", !.row = NoFrame] \in HttpType
         /\ [h EXCEPT !.pc = "answered", !.row = NoFrame].pc = "answered"
         /\ [h EXCEPT !.pc = "answered", !.row = NoFrame].rows = h.rows
         /\ [h EXCEPT !.pc = "answered", !.row = NoFrame].ask = h.ask
BY FieldTypes DEF HttpType

LEMMA HttpFields ==
  ASSUME NEW h \in HttpType
  PROVE  /\ [h EXCEPT !.pc = "answered"] \in HttpType
         /\ [h EXCEPT !.pc = "answered"].pc = "answered"
         /\ [h EXCEPT !.pc = "answered"].rows = h.rows
         /\ [h EXCEPT !.pc = "answered"].ask = h.ask
BY FieldTypes DEF HttpType

LEMMA HttpCounts ==
  ASSUME NEW h \in HttpType, NEW i
  PROVE  /\ [h EXCEPT !.unread = @ \ {i}] \in HttpType
         /\ [h EXCEPT !.unread = @ \ {i}].pc = h.pc
         /\ [h EXCEPT !.unread = @ \ {i}].rows = h.rows
         /\ [h EXCEPT !.unread = @ \ {i}].ask = h.ask
         /\ [h EXCEPT !.unread = @ \ {i}].unread = h.unread \ {i}
BY FieldTypes DEF HttpType

WithAsk(h, ask) == [h EXCEPT !.pc = "answered", !.ask = ask]
WithRow(h, row) == [h EXCEPT !.pc = "decrypt", !.row = row]

LEMMA HttpAsks ==
  ASSUME NEW h \in HttpType, NEW ask \in MaybeAsks
  PROVE  /\ WithAsk(h, ask) \in HttpType
         /\ WithAsk(h, ask).pc = "answered"
         /\ WithAsk(h, ask).rows = h.rows
         /\ WithAsk(h, ask).ask = ask
BY FieldTypes DEF HttpType, WithAsk

LEMMA HttpOpens ==
  ASSUME NEW h \in HttpType, NEW row \in MaybeFrames
  PROVE  /\ WithRow(h, row) \in HttpType
         /\ WithRow(h, row).pc = "decrypt"
         /\ WithRow(h, row).rows = h.rows
         /\ WithRow(h, row).ask = h.ask
         /\ WithRow(h, row).row = row
BY FieldTypes DEF HttpType, WithRow

\* An answer without contents.
LEMMA Answered ==
  ASSUME NEW code \in Codes, answer' = [NoAnswer EXCEPT !.code = code]
  PROVE  answer' \in AnswerType /\ answer'.code = code
<1>1. NoAnswer \in AnswerType
  BY FieldTypes DEF NoAnswer, AnswerType
<1>2. answer' = WithCode(NoAnswer, code)
  BY DEF WithCode
<1>. QED BY <1>1, <1>2, AnswerFields

\* A step of the HTTP thread changes nothing that the other properties speak of.
LEMMA ReaderStep ==
  ASSUME IInv, UNCHANGED <<deliveryVars, secretsVars>>,
         http' \in HttpType, answer' \in AnswerType,
         Opened', DecryptionIsSound', Reading'
  PROVE  IInv'
<1>. USE DEF deliveryVars, secretsVars
<1>1. SecretMessagesTypeOK'
  <2>1. DeliveryTypeOK
    BY DEF IInv, SecretMessagesTypeOK
  <2>2. DeliveryTypeOK'
    BY <2>1 DEF DeliveryTypeOK
  <2>. QED BY <2>2 DEF IInv, SecretMessagesTypeOK, HttpType, AnswerType, HttpPcs, MaybeAsks,
                       MaybeFrames, Codes, Lists
<1>2. Working' /\ Waiting' /\ AnswersMatchStore'
  BY DEF IInv, Working, Waiting, AnswersMatchStore, Stored, IsStored
<1>3. Making'
  BY DEF IInv, Making, HasSecret, HasSecretRow
<1>4. ListedSecretsAreComplete' /\ OrphansAreExplained'
  BY DEF IInv, ListedSecretsAreComplete, OrphansAreExplained, HasSecretRow, Stored
<1>. QED BY <1>1, <1>2, <1>3, <1>4 DEF IInv

LEMMA HandleDecryptIInv ==
  ASSUME IInv, NEW ask \in Asks, HandleDecrypt(ask)
  PROVE  IInv'
<1>1. UNCHANGED <<deliveryVars, secretsVars>> /\ SecretMessagesTypeOK
  BY DEF HandleDecrypt, IInv
<1>2. UNCHANGED <<frame, chat, secrets, images, env, texts>>
  BY <1>1 DEF deliveryVars, secretsVars
<1>3. \A sender, at : Matches(sender, at)' = Matches(sender, at)
  BY <1>2 DEF Matches
<1>4. \A sender, at : \A i \in Matches(sender, at) : secrets[i].frame \in Frames
  BY <1>1, Types DEF Matches
<1>5. Len(chat') \in Nat
  BY <1>1, <1>2, Types
<1>6. CASE /\ http' = [HttpIdle EXCEPT !.pc = "answered"]
           /\ answer' = [NoAnswer EXCEPT !.code = 500]
  <2>1. /\ http' \in HttpType /\ answer' \in AnswerType
        /\ http'.pc = "answered" /\ http'.rows = 0 /\ answer'.code = 500
    <3>1. HttpIdle \in HttpType /\ HttpIdle.rows = 0 /\ 500 \in Codes
      BY <1>1, ReaderTypes, FieldTypes
    <3>2. answer' \in AnswerType /\ answer'.code = 500
      BY <1>6, <3>1, Answered
    <3>. QED BY <1>6, <3>1, <3>2, HttpFields
  <2>2. Opened' /\ DecryptionIsSound'
    BY <2>1 DEF Opened, DecryptionIsSound
  <2>3. Reading'
    BY <1>5, <2>1 DEF Reading
  <2>. QED BY <1>1, <2>1, <2>2, <2>3, ReaderStep
<1>7. ASSUME NEW i \in Matches(ask.sender, ask.at), frame[secrets[i].frame].key = ask.key,
             http' = [[HttpIdle EXCEPT !.pc = "answered", !.ask = ask]
                      EXCEPT !.pc = "decrypt", !.row = secrets[i].frame],
             answer' = NoAnswer
      PROVE  IInv'
  <2>1. /\ http' \in HttpType /\ answer' \in AnswerType
        /\ http'.pc = "decrypt" /\ http'.rows = 0 /\ http'.ask = ask
        /\ http'.row = secrets[i].frame
    <3>1. PICK row \in Frames : row = secrets[i].frame
      BY <1>4, <1>7
    <3>2. /\ HttpIdle \in HttpType /\ HttpIdle.rows = 0
          /\ ask \in MaybeAsks /\ row \in MaybeFrames
      BY <1>1, <3>1, ReaderTypes, FieldTypes
    <3>3. PICK h \in HttpType : h = WithAsk(HttpIdle, ask) /\ h.rows = 0 /\ h.ask = ask
      BY <3>2, HttpAsks
    <3>4. http' = WithRow(h, row)
      BY <1>7, <3>1, <3>3 DEF WithAsk, WithRow
    <3>5. /\ http' \in HttpType /\ http'.pc = "decrypt" /\ http'.rows = 0
          /\ http'.ask = ask /\ http'.row = row
      BY <3>2, <3>3, <3>4, HttpOpens
    <3>. QED BY <1>1, <1>7, <3>1, <3>5, ReaderTypes
  <2>2. Opened'
    BY <1>2, <1>3, <1>4, <1>7, <2>1 DEF Opened
  <2>3. DecryptionIsSound'
    BY <2>1 DEF DecryptionIsSound
  <2>4. Reading'
    BY <1>5, <2>1 DEF Reading
  <2>. QED BY <1>1, <2>1, <2>2, <2>3, <2>4, ReaderStep
<1>8. ASSUME NEW i \in Matches(ask.sender, ask.at), frame[secrets[i].frame].key # ask.key,
             http' = [HttpIdle EXCEPT !.pc = "answered", !.ask = ask],
             answer' = [NoAnswer EXCEPT !.code = 403]
      PROVE  IInv'
  <2>1. /\ http' \in HttpType /\ answer' \in AnswerType
        /\ http'.pc = "answered" /\ http'.rows = 0 /\ http'.ask = ask /\ answer'.code = 403
    <3>1. 403 \in Codes
      BY FieldTypes
    <3>2. answer' \in AnswerType /\ answer'.code = 403
      BY <1>8, <3>1, Answered
    <3>3. HttpIdle \in HttpType /\ HttpIdle.rows = 0 /\ ask \in MaybeAsks
      BY <1>1, ReaderTypes, FieldTypes
    <3>4. http' = WithAsk(HttpIdle, ask)
      BY <1>8 DEF WithAsk
    <3>. QED BY <3>2, <3>3, <3>4, HttpAsks
  <2>2. PICK g \in Frames : g = secrets[i].frame
    BY <1>4, <1>8
  <2>3. i \in Matches(ask.sender, ask.at)' /\ secrets'[i].frame = g /\ frame'[g].key # ask.key
    BY <1>2, <1>3, <1>8, <2>2
  <2>4. DecryptionIsSound'
    BY <2>1, <2>3 DEF DecryptionIsSound
  <2>5. Opened'
    BY <2>1 DEF Opened
  <2>6. Reading'
    BY <1>5, <2>1 DEF Reading
  <2>. QED BY <1>1, <2>1, <2>4, <2>5, <2>6, ReaderStep
<1>9. CASE \E i \in Matches(ask.sender, ask.at) :
              IF frame[secrets[i].frame].key = ask.key
              THEN /\ http' = [[HttpIdle EXCEPT !.pc = "answered", !.ask = ask]
                              EXCEPT !.pc = "decrypt", !.row = secrets[i].frame]
                   /\ answer' = NoAnswer
              ELSE /\ http' = [HttpIdle EXCEPT !.pc = "answered", !.ask = ask]
                   /\ answer' = [NoAnswer EXCEPT !.code = 403]
  <2>1. PICK i \in Matches(ask.sender, ask.at) :
          IF frame[secrets[i].frame].key = ask.key
          THEN /\ http' = [[HttpIdle EXCEPT !.pc = "answered", !.ask = ask]
                          EXCEPT !.pc = "decrypt", !.row = secrets[i].frame]
               /\ answer' = NoAnswer
          ELSE /\ http' = [HttpIdle EXCEPT !.pc = "answered", !.ask = ask]
               /\ answer' = [NoAnswer EXCEPT !.code = 403]
    BY <1>9
  <2>2. CASE frame[secrets[i].frame].key = ask.key
    BY <1>7, <2>1, <2>2, Zenon
  <2>3. CASE frame[secrets[i].frame].key # ask.key
    BY <1>8, <2>1, <2>3, Zenon
  <2>. QED BY <2>2, <2>3
<1>. QED BY <1>6, <1>9, Zenon DEF HandleDecrypt

LEMMA DecryptReadsIInv ==
  ASSUME IInv, DecryptReads
  PROVE  IInv'
<1>1. /\ http.pc = "decrypt" /\ UNCHANGED <<deliveryVars, secretsVars>>
      /\ SecretMessagesTypeOK
  BY DEF DecryptReads, IInv
<1>2. UNCHANGED <<frame, chat, secrets, images, env, texts>>
  BY <1>1 DEF deliveryVars, secretsVars
<1>3. \A sender, at : Matches(sender, at)' = Matches(sender, at)
  BY <1>2 DEF Matches
<1>4. PICK i \in Matches(http.ask.sender, http.ask.at) :
        /\ secrets[i].frame = http.row /\ http.ask \in Asks /\ http.row \in Frames
        /\ frame[http.row].key = http.ask.key
  BY <1>1 DEF IInv, Opened
<1>5. PICK g \in Frames : g = http.row
  BY <1>4
<1>6. http.rows \in Nat /\ http.rows <= Len(chat')
  BY <1>1, <1>2, ReaderTypes DEF IInv, Reading, HttpType
<1>7. PICK code \in {200, 500}, secret \in MaybeFrames :
        /\ Decrypts(code, secret)
        /\ code = 200 /\ secret # NoFrame => secret = g /\ env
        /\ code = 200 /\ secret = NoFrame => StaleReads \/ images[g] = "cut"
  <2>. USE FieldTypes
  <2>1. CASE StaleReads /\ \E code \in {200, 500} : Decrypts(code, NoFrame)
    <3>1. PICK code \in {200, 500} : Decrypts(code, NoFrame)
      BY <2>1
    <3>. WITNESS code \in {200, 500}, NoFrame \in MaybeFrames
    <3>. QED BY <2>1, <3>1
  <2>2. CASE Decrypts(500, NoFrame)
    <3>. WITNESS 500 \in {200, 500}, NoFrame \in MaybeFrames
    <3>. QED BY <2>2
  <2>3. CASE env /\ Decrypts(200, g)
    <3>. WITNESS 200 \in {200, 500}, g \in MaybeFrames
    <3>. QED BY <2>3, <1>1, ReaderTypes
  <2>4. CASE images[g] = "cut" /\ Decrypts(200, NoFrame)
    <3>. WITNESS 200 \in {200, 500}, NoFrame \in MaybeFrames
    <3>. QED BY <2>4
  <2>. QED BY <1>5, <2>1, <2>2, <2>3, <2>4 DEF DecryptReads, Garbage
<1>8. /\ http' \in HttpType /\ answer' \in AnswerType
      /\ http'.pc = "answered" /\ http'.rows = http.rows /\ http'.ask = http.ask
      /\ answer'.code = code /\ answer'.secret = secret
  <2>1. http \in HttpType /\ NoAnswer \in AnswerType
    BY <1>1, ReaderTypes
  <2>2. /\ http' = [http EXCEPT !.pc = "answered", !.row = NoFrame]
        /\ answer' = WithSecret(NoAnswer, code, secret)
    BY <1>7 DEF Decrypts, WithSecret
  <2>3. code \in Codes
    BY <1>7 DEF Codes
  <2>4. /\ answer' \in AnswerType /\ answer'.code = code /\ answer'.secret = secret
    BY <1>7, <2>1, <2>2, <2>3, SecretFields
  <2>5. /\ http' \in HttpType /\ http'.pc = "answered"
        /\ http'.rows = http.rows /\ http'.ask = http.ask
    <3>1. /\ [http EXCEPT !.pc = "answered", !.row = NoFrame] \in HttpType
          /\ [http EXCEPT !.pc = "answered", !.row = NoFrame].pc = "answered"
          /\ [http EXCEPT !.pc = "answered", !.row = NoFrame].rows = http.rows
          /\ [http EXCEPT !.pc = "answered", !.row = NoFrame].ask = http.ask
      BY <2>1, HttpMoves, ZenonT(30)
    <3>2. http' = [http EXCEPT !.pc = "answered", !.row = NoFrame]
      BY <2>2
    <3>. QED BY <3>1, <3>2
  <2>. QED BY <2>4, <2>5
<1>9. DecryptionIsSound'
  <2>1. http.ask = http'.ask /\ http.ask # NoAsk
    BY <1>1, <1>4, <1>8, ReaderTypes
  <2>2. PICK ask \in Asks : ask = http.ask /\ ask = http'.ask
    BY <1>4, <1>8
  <2>3. i \in Matches(ask.sender, ask.at)' /\ secrets'[i].frame = g /\ frame'[g].key = ask.key
    BY <1>2, <1>3, <1>4, <1>5, <2>2
  <2>4. /\ answer'.code = 200 /\ answer'.secret # NoFrame => answer'.secret = g /\ env'
        /\ answer'.code = 200 /\ answer'.secret = NoFrame => StaleReads \/ images'[g] = "cut"
        /\ answer'.code # 403
    BY <1>2, <1>7, <1>8
  <2>. QED BY <2>2, <2>3, <2>4 DEF DecryptionIsSound, Garbage
<1>10. Opened' /\ Reading'
  BY <1>6, <1>8 DEF Opened, Reading
<1>. QED BY <1>1, <1>8, <1>9, <1>10, ReaderStep

LEMMA HandleHistoryIInv ==
  ASSUME IInv, HandleHistory
  PROVE  IInv'
<1>1. UNCHANGED <<deliveryVars, secretsVars>> /\ SecretMessagesTypeOK
  BY DEF HandleHistory, IInv
<1>2. chat' = chat /\ Len(chat) \in Nat
  BY <1>1, Types DEF deliveryVars
<1>3. CASE /\ http' = [HttpIdle EXCEPT !.pc = "answered"]
           /\ answer' = [NoAnswer EXCEPT !.code = 500]
  <2>1. /\ http' \in HttpType /\ answer' \in AnswerType
        /\ http'.pc = "answered" /\ http'.rows = 0 /\ answer'.code = 500
    <3>1. HttpIdle \in HttpType /\ HttpIdle.rows = 0 /\ 500 \in Codes
      BY <1>1, ReaderTypes, FieldTypes
    <3>2. answer' \in AnswerType /\ answer'.code = 500
      BY <1>3, <3>1, Answered
    <3>. QED BY <1>3, <3>1, <3>2, HttpFields
  <2>2. Opened' /\ DecryptionIsSound'
    BY <2>1 DEF Opened, DecryptionIsSound
  <2>3. Reading'
    BY <1>2, <2>1 DEF Reading
  <2>. QED BY <1>1, <2>1, <2>2, <2>3, ReaderStep
<1>4. CASE /\ http' = [HttpIdle EXCEPT !.pc = "history", !.rows = Len(chat),
                                          !.unread = 1..Len(chat)]
           /\ answer' = NoAnswer
  <2>1. /\ http' \in HttpType /\ answer' \in AnswerType
        /\ http'.pc = "history" /\ http'.rows = Len(chat) /\ http'.unread = 1..Len(chat)
        /\ http'.ask = NoAsk /\ answer'.code = 0 /\ answer'.secret = NoFrame
    <3>1. HttpIdle \in HttpType /\ HttpIdle.ask = NoAsk
      BY <1>1, ReaderTypes
    <3>2. 1..Len(chat) \in SUBSET Nat
      BY <1>2, SMT
    <3>3. /\ http' \in HttpType /\ http'.pc = "history" /\ http'.rows = Len(chat)
          /\ http'.unread = 1..Len(chat) /\ http'.ask = NoAsk
      <4>. PICK unread \in SUBSET Nat : unread = 1..Len(chat)
        BY <3>2
      <4>. QED BY <1>2, <1>4, <3>1, FieldTypes DEF HttpType
    <3>. QED BY <1>1, <1>4, <3>3, ReaderTypes
  <2>2. Opened' /\ DecryptionIsSound'
    BY <2>1 DEF Opened, DecryptionIsSound
  <2>3. Reading'
    BY <1>2, <2>1 DEF Reading
  <2>. QED BY <1>1, <2>1, <2>2, <2>3, ReaderStep
<1>. QED BY <1>3, <1>4 DEF HandleHistory

\* Every row that is read has an entry.
LEMMA RowsAreListed ==
  ASSUME IInv, HistoryReads
  PROVE  /\ http.pc = "history" /\ UNCHANGED <<deliveryVars, secretsVars>>
         /\ \E i \in Earliest(http.unread) :
              /\ i \in 1..Len(chat)
              /\ http' = [http EXCEPT !.unread = @ \ {i}]
              /\ answer' = [answer EXCEPT !.entries = Append(@, chat[i].frame)]
<1>1. http.pc = "history" /\ UNCHANGED <<deliveryVars, secretsVars>>
  BY DEF HistoryReads
<1>2. PICK i \in Earliest(http.unread) : ReadsRow(i)
  BY DEF HistoryReads
<1>3. i \in 1..Len(chat)
  <2>1. http.rows \in Nat /\ http.rows <= Len(chat) /\ Len(chat) \in Nat
    BY ReaderTypes, Types DEF IInv, Reading, HttpType
  <2>2. i \in 1..http.rows
    BY <1>1, <1>2 DEF IInv, Reading, Earliest
  <2>. QED BY <2>1, <2>2, SMT
<1>4. HasEntry(chat[i])
  BY <1>3 DEF IInv, ListedSecretsAreComplete, HasEntry
<1>. QED BY <1>1, <1>2, <1>3, <1>4 DEF ReadsRow

LEMMA HistoryReadsIInv ==
  ASSUME IInv, HistoryReads
  PROVE  IInv'
<1>1. http.pc = "history" /\ UNCHANGED <<deliveryVars, secretsVars>> /\ SecretMessagesTypeOK
  BY RowsAreListed DEF IInv
<1>2. PICK i \in 1..Len(chat) :
        /\ http' = [http EXCEPT !.unread = @ \ {i}]
        /\ answer' = [answer EXCEPT !.entries = Append(@, chat[i].frame)]
  BY RowsAreListed
<1>3. chat' = chat /\ chat[i].frame \in Frames
  BY <1>1, Types DEF deliveryVars
<1>4. PICK entries \in Lists : entries = Append(answer.entries, chat[i].frame)
  BY <1>1, <1>3, ReaderTypes, AppendProperties DEF AnswerType, Lists
<1>5. answer' = WithEntries(answer, entries)
  BY <1>2, <1>4, Zenon DEF WithEntries
<1>6. /\ answer' \in AnswerType /\ answer'.code = answer.code
      /\ answer'.secret = answer.secret
  BY <1>1, <1>5, ReaderTypes, AnswerEntries
<1>7. /\ http' \in HttpType /\ http'.pc = "history" /\ http'.unread = http.unread \ {i}
      /\ http'.rows = http.rows /\ http'.ask = http.ask
  BY <1>1, <1>2, ReaderTypes, HttpCounts
<1>8. Opened' /\ DecryptionIsSound'
  BY <1>7 DEF Opened, DecryptionIsSound
<1>9. Reading'
  BY <1>1, <1>3, <1>6, <1>7 DEF IInv, Reading
<1>. QED BY <1>1, <1>6, <1>7, <1>8, <1>9, ReaderStep

LEMMA HistoryAnswersIInv ==
  ASSUME IInv, HistoryAnswers
  PROVE  IInv'
<1>1. /\ http.pc = "history" /\ UNCHANGED <<deliveryVars, secretsVars>>
      /\ http' = [http EXCEPT !.pc = "answered"]
      /\ answer' = [answer EXCEPT !.code = 200]
      /\ SecretMessagesTypeOK
  BY DEF HistoryAnswers, IInv
<1>2. chat' = chat
  BY <1>1 DEF deliveryVars
<1>3. answer' \in AnswerType /\ answer'.code = 200 /\ answer'.secret = answer.secret
  <2>1. answer' = WithCode(answer, 200) /\ answer \in AnswerType
    BY <1>1, ReaderTypes DEF WithCode
  <2>2. 200 \in Codes
    BY FieldTypes
  <2>. QED BY <2>1, <2>2, AnswerFields
<1>4. /\ http' \in HttpType /\ http'.pc = "answered" /\ http'.rows = http.rows
      /\ http'.ask = http.ask
  BY <1>1, ReaderTypes, HttpFields
<1>5. Opened' /\ Reading'
  BY <1>2, <1>4 DEF IInv, Opened, Reading
<1>6. DecryptionIsSound'
  <2>1. answer'.code = 200 /\ answer'.secret = Garbage /\ http'.ask = NoAsk
    BY <1>1, <1>3, <1>4 DEF IInv, Reading, Garbage
  <2>. QED BY <2>1 DEF DecryptionIsSound
<1>. QED BY <1>1, <1>3, <1>4, <1>5, <1>6, ReaderStep
-----------------------------------------------------------------------------
(* The process ends, the initial states, and the whole specification.       *)

LEMMA ProcessEndsIInv ==
  ASSUME IInv, ProcessEnds
  PROVE  IInv'
<1>1. /\ ws' = WsOff /\ wsdb' = "none" /\ inbox' = <<>> /\ http' = HttpIdle
      /\ answer' = NoAnswer /\ env' = FALSE
      /\ fate' = [f \in Frames |-> IF fate[f] \in {"waiting", "taken"} THEN "lost"
                                   ELSE fate[f]]
      /\ UNCHANGED <<frame, told, chat, unsaved, clock, images, texts, secrets>>
      /\ SecretMessagesTypeOK
  BY DEF ProcessEnds, DeliveryDies, IInv
<1>2. /\ fate' \in [Frames -> {"unsent", "waiting", "taken", "done", "lost"}]
      /\ \A f \in Frames : /\ fate[f] \in {"waiting", "taken"} => fate'[f] = "lost"
                           /\ fate[f] \notin {"waiting", "taken"} => fate'[f] = fate[f]
                           /\ fate'[f] \notin {"waiting", "taken"}
  BY <1>1, WsTypes
<1>3. /\ ws' \in [pc : {"off", "idle"} \cup WsBusyPcs, frame : Frames \cup {NoFrame},
                  text : Replies \cup {"none", "image"}]
      /\ ws'.pc = "off" /\ ws'.pc \notin WsBusyPcs
  BY <1>1, WsTypes
<1>4. \A g : /\ Stored(g)' <=> Stored(g)
             /\ HasSecret(g)' <=> HasSecret(g)
             /\ \A y : IsStored(g, y)' <=> IsStored(g, y)
  BY <1>1 DEF Stored, HasSecret, IsStored
<1>5. http' \in HttpType /\ http'.pc = "idle" /\ http'.rows = 0 /\ answer' \in AnswerType
  BY <1>1, ReaderTypes
<1>6. SecretMessagesTypeOK'
  <2>1. DeliveryTypeOK
    BY <1>1 DEF SecretMessagesTypeOK
  <2>2. DeliveryTypeOK'
    BY <1>1, <1>2, <1>3, <2>1 DEF DeliveryTypeOK
  <2>. QED BY <1>1, <1>5, <2>2
           DEF SecretMessagesTypeOK, HttpType, AnswerType, HttpPcs, MaybeAsks,
               MaybeFrames, Codes, Lists
<1>7. Working'
  BY <1>2, <1>3 DEF Working, WsBusyPcs
<1>8. Waiting'
  <2>1. \A i \in 1..Len(inbox') : FALSE
    BY <1>1, EmptySeq, SMT
  <2>2. \A f \in Frames : fate'[f] \in {"unsent", "waiting"} => ~Stored(f)'
    BY <1>2, <1>4 DEF IInv, Waiting
  <2>3. \A f \in Frames : fate'[f] # "done" => told'[f] = <<>>
    BY <1>1, <1>2 DEF IInv, Waiting
  <2>. QED BY <2>1, <2>2, <2>3 DEF Waiting
<1>9. AnswersMatchStore'
  <2>1. \A f \in Frames : fate'[f] = "done" => fate[f] = "done"
    BY <1>2
  <2>. QED BY <1>1, <1>4, <2>1 DEF IInv, AnswersMatchStore
<1>10. Making'
  <2>1. \A f \in Frames : fate'[f] \in {"unsent", "waiting"} => ~HasSecret(f)'
    BY <1>2, <1>4 DEF IInv, Making
  <2>. QED BY <1>3, <2>1 DEF Making, WsBusyPcs
<1>11. ListedSecretsAreComplete'
  BY <1>1 DEF IInv, ListedSecretsAreComplete, HasSecretRow
<1>12. OrphansAreExplained'
  <2>1. ChatGrows /\ Len(chat') \in Nat
    BY <1>1, Types, SMT DEF ChatGrows
  <2>2. \A f \in Frames : ws.pc = "save" /\ ws.frame = f => fate'[f] = "lost"
    BY <1>2 DEF IInv, Working, WsBusyPcs
  <2>3. \A f \in Frames : fate[f] = "lost" => fate'[f] = "lost"
    BY <1>2
  <2>. QED BY <1>1, <2>1, <2>2, <2>3, OrphansKeep
<1>13. Opened' /\ DecryptionIsSound'
  BY <1>5 DEF Opened, DecryptionIsSound
<1>14. Reading'
  <2>1. Len(chat') \in Nat
    BY <1>1, Types
  <2>. QED BY <1>5, <2>1, SMT DEF Reading
<1>. QED BY <1>6, <1>7, <1>8, <1>9, <1>10, <1>11, <1>12, <1>13, <1>14 DEF IInv

LEMMA InitIInv == SecretMessagesInit => IInv
<1>. SUFFICES ASSUME SecretMessagesInit PROVE IInv
  OBVIOUS
<1>1. /\ fate = [f \in Frames |-> "unsent"] /\ inbox = <<>> /\ ws = WsOff
      /\ told = [f \in Frames |-> <<>>] /\ chat = <<>> /\ unsaved = {} /\ secrets = <<>>
      /\ http = HttpIdle /\ answer = NoAnswer
  BY DEF SecretMessagesInit, DeliveryInit
<1>2. /\ \A i \in 1..Len(inbox) : FALSE
      /\ \A i \in 1..Len(chat) : FALSE
      /\ \A i \in 1..Len(secrets) : FALSE
  BY <1>1, EmptySeq, SMT
<1>3. SecretMessagesTypeOK
  <2>1. /\ ws \in [pc : {"off", "idle"} \cup WsBusyPcs, frame : Frames \cup {NoFrame},
                   text : Replies \cup {"none", "image"}]
        /\ http \in HttpType /\ answer \in AnswerType
    <3>1. /\ HttpIdle \in HttpType /\ NoAnswer \in AnswerType
      BY FieldTypes DEF HttpIdle, NoAnswer, HttpType, AnswerType
    <3>. QED BY <1>1, <3>1 DEF WsOff, WsIdle
  <2>2. <<>> \in Seq(Replies \cup {"error", "http"})
    BY EmptySeq
  <2>3. /\ told \in [Frames -> Seq(Replies \cup {"error", "http"})]
        /\ fate \in [Frames -> {"unsent", "waiting", "taken", "done", "lost"}]
    BY <1>1, <2>2
  <2>4. /\ inbox \in Seq(Frames) /\ secrets \in Seq([frame : Frames, at : 1..MaxTime])
        /\ chat \in Seq([frame : Frames, at : 1..MaxTime, text : Replies \cup {"image"}])
    BY <1>1, EmptySeq
  <2>5. clock \in 1..MaxTime
    BY SMT DEF SecretMessagesInit, DeliveryInit
  <2>6. DeliveryTypeOK
    BY <1>1, <2>1, <2>3, <2>4, <2>5 DEF SecretMessagesInit, DeliveryInit, DeliveryTypeOK
  <2>7. /\ images \in [Frames -> {"none", "whole", "cut"}]
        /\ texts \subseteq Frames
        /\ env \in BOOLEAN
    BY DEF SecretMessagesInit
  <2>. QED BY <2>1, <2>4, <2>6, <2>7
           DEF SecretMessagesTypeOK, HttpType, AnswerType, HttpPcs, MaybeAsks, MaybeFrames,
               Codes, Lists
<1>4. ws.pc = "off" /\ "off" \notin WsBusyPcs
  BY <1>1, <1>3, WsTypes
<1>5. \A f \in Frames : fate[f] = "unsent" /\ told[f] = <<>> /\ ~Stored(f) /\ ~HasSecret(f)
  BY <1>1, <1>2 DEF Stored, HasSecret
<1>6. Working
  BY <1>4, <1>5 DEF Working, WsBusyPcs
<1>7. Waiting /\ AnswersMatchStore
  BY <1>2, <1>5 DEF Waiting, AnswersMatchStore
<1>8. Making
  BY <1>4, <1>5 DEF Making
<1>9. ListedSecretsAreComplete /\ OrphansAreExplained
  BY <1>2 DEF ListedSecretsAreComplete, OrphansAreExplained
<1>10. http.pc = "idle" /\ http.rows = 0 /\ Len(chat) \in Nat
  BY <1>1, <1>3, ReaderTypes, Types
<1>11. Opened /\ DecryptionIsSound
  BY <1>10 DEF Opened, DecryptionIsSound
<1>12. Reading
  BY <1>10, SMT DEF Reading
<1>. QED BY <1>3, <1>6, <1>7, <1>8, <1>9, <1>11, <1>12 DEF IInv

LEMMA StutterIInv ==
  ASSUME IInv, UNCHANGED vars
  PROVE  IInv'
<1>1. UNCHANGED <<deliveryVars, secretsVars, http, answer>>
  BY DEF vars, deliveryVars, secretsVars
<1>2. SecretMessagesTypeOK
  BY DEF IInv
<1>3. http' \in HttpType /\ answer' \in AnswerType
  BY <1>1, <1>2, ReaderTypes
<1>4. UNCHANGED <<frame, chat, secrets, images, texts, env, http, answer>>
  BY <1>1 DEF deliveryVars, secretsVars
<1>5. /\ ChatGrows /\ SecretsGrow /\ Len(chat') \in Nat /\ Len(secrets') \in Nat
  BY <1>2, <1>4, Types, SMT DEF ChatGrows, SecretsGrow
<1>6. Opened' /\ DecryptionIsSound' /\ Reading'
  BY <1>4, <1>5, ReaderStays
<1>. QED BY <1>1, <1>3, <1>6, ReaderStep

\* The invariant: every step of any thread, and the death of the process, keeps it.
THEOREM SecretMessagesInvariant == SecretMessagesSpec => []IInv
<1>1. ASSUME IInv, [SecretMessagesNext]_vars
      PROVE  IInv'
  <2>1. CASE WsThread
    <3>1. CASE Encryption
      BY <1>1, <3>1, EmbedIInv, EncodeIInv, InsertSecretIInv DEF Encryption
    <3>2. CASE /\ WsReceives \/ WsExchanges \/ WsSaves \/ WsTells
               /\ UNCHANGED <<secretsVars, readerVars>>
      BY <1>1, <3>2, WsReceivesIInv, WsExchangesIInv, WsSavesIInv, WsTellsIInv
    <3>. QED BY <2>1, <3>1, <3>2 DEF WsThread
  <2>2. CASE Reader
    BY <1>1, <2>2, HandleDecryptIInv, DecryptReadsIInv, HandleHistoryIInv, HistoryReadsIInv,
       HistoryAnswersIInv DEF Reader
  <2>3. CASE ProcessEnds
    BY <1>1, <2>3, ProcessEndsIInv
  <2>4. CASE /\ (\E f \in Frames : ClientSends(f)) \/ WsStarts \/ ClockTicks
             /\ UNCHANGED <<secretsVars, readerVars>>
    BY <1>1, <2>4, ClientSendsIInv, WsStartsIInv, ClockTicksIInv
  <2>5. CASE UNCHANGED vars
    BY <1>1, <2>5, StutterIInv
  <2>. QED BY <1>1, <2>1, <2>2, <2>3, <2>4, <2>5 DEF SecretMessagesNext
<1>. QED BY <1>1, InitIInv, PTL DEF SecretMessagesSpec
-----------------------------------------------------------------------------
(* The properties.                                                         *)

\* Every variable keeps its type.
THEOREM SecretMessagesTypes == SecretMessagesSpec => []SecretMessagesTypeOK
<1>1. IInv => SecretMessagesTypeOK
  BY DEF IInv
<1>. QED BY <1>1, SecretMessagesInvariant, PTL

\* What a client is told about its frame is what became of it (process_message).
THEOREM AnswersAreTrue == SecretMessagesSpec => []AnswersMatchStore
<1>1. IInv => AnswersMatchStore
  BY DEF IInv
<1>. QED BY <1>1, SecretMessagesInvariant, PTL

\* A secret is listed in a chat only when all that its reader needs is there, and one that
\* is stored but not listed has its reason (handle_encrypt_message, process_message).
THEOREM SecretsAreComplete ==
  SecretMessagesSpec => [](ListedSecretsAreComplete /\ OrphansAreExplained)
<1>1. IInv => ListedSecretsAreComplete /\ OrphansAreExplained
  BY DEF IInv
<1>. QED BY <1>1, SecretMessagesInvariant, PTL

\* Only who names sender, time and key of a secret gets it, whatever the WebSocket thread
\* stores meanwhile (handle_decrypt_message).
THEOREM OnlyTheKeyOpens == SecretMessagesSpec => []DecryptionIsSound
<1>1. IInv => DecryptionIsSound
  BY DEF IInv
<1>. QED BY <1>1, SecretMessagesInvariant, PTL
-----------------------------------------------------------------------------
(* Histories, relative to IInv.                                            *)

\* No frame has two rows of chat_message.
Once == \A i, j \in 1..Len(chat) : chat[i].frame = chat[j].frame => i = j

\* What get_chat_history has read so far is in the response, and not later than the rest.
Collected ==
  LET read == (1..http.rows) \ http.unread
  IN http.pc = "history" =>
       /\ ListsRows(answer.entries, chat, read)
       /\ \A i \in read, j \in http.unread : chat[i].at <= chat[j].at

LEMMA ListsOneMore ==
  ASSUME NEW table, NEW entries \in Seq(Frames), NEW rows, NEW n, n \notin rows,
         \A i, j \in rows \cup {n} : table[i].frame = table[j].frame => i = j,
         \A i \in rows : table[i].at <= table[n].at,
         table[n].frame \in Frames, table[n].at \in Nat,
         ListsRows(entries, table, rows)
  PROVE  ListsRows(Append(entries, table[n].frame), table, rows \cup {n})
<1>. DEFINE more == Append(entries, table[n].frame)
            L == Len(entries)
<1>1. /\ Len(more) = L + 1 /\ more[L + 1] = table[n].frame
      /\ \A k \in 1..L : more[k] = entries[k]
      /\ L \in Nat
  BY AppendProperties, LenProperties
<1>. HIDE DEF more, L
<1>2. \A k \in 1..Len(more) : k \in 1..L \/ k = L + 1
  BY <1>1, SMT
<1>3. (\A k \in 1..L : k \in 1..Len(more)) /\ L + 1 \in 1..Len(more)
  BY <1>1, SMT
<1>4. /\ \A i \in rows : \E k \in 1..L : entries[k] = table[i].frame
      /\ \A k \in 1..L : \E i \in rows : entries[k] = table[i].frame
      /\ \A k, l \in 1..L : entries[k] = entries[l] => k = l
      /\ \A k, l \in 1..L : \A i, j \in rows :
           k < l /\ entries[k] = table[i].frame /\ entries[l] = table[j].frame =>
             table[i].at <= table[j].at
  BY DEF ListsRows, L
<1>5. \A k \in 1..L : entries[k] # table[n].frame
  BY <1>4
<1>6. \A i \in rows \cup {n} : \E k \in 1..Len(more) : more[k] = table[i].frame
  BY <1>1, <1>3, <1>4
<1>7. \A k \in 1..Len(more) : \E i \in rows \cup {n} : more[k] = table[i].frame
  BY <1>1, <1>2, <1>4
<1>8. \A k, l \in 1..Len(more) : more[k] = more[l] => k = l
  BY <1>1, <1>2, <1>4, <1>5
<1>9. ASSUME NEW k \in 1..Len(more), NEW l \in 1..Len(more),
             NEW i \in rows \cup {n}, NEW j \in rows \cup {n},
             k < l, more[k] = table[i].frame, more[l] = table[j].frame
      PROVE  table[i].at <= table[j].at
  <2>1. k \in 1..L
    BY <1>1, <1>9, SMT
  <2>2. i \in rows
    BY <1>1, <1>5, <1>9, <2>1
  <2>3. CASE l = L + 1
    <3>1. j = n
      BY <1>1, <1>9, <2>3
    <3>. QED BY <2>2, <3>1
  <2>4. CASE l \in 1..L
    <3>1. j \in rows
      BY <1>1, <1>5, <1>9, <2>4
    <3>. QED BY <1>1, <1>4, <1>9, <2>1, <2>2, <2>4, <3>1
  <2>. QED BY <1>2, <2>3, <2>4
<1>10. ListsRows(more, table, rows \cup {n})
  BY <1>6, <1>7, <1>8, <1>9 DEF ListsRows
<1>. QED BY <1>10 DEF more

\* A table that grows still has the rows of the response.
LEMMA ListsStays ==
  ASSUME NEW table, NEW longer, NEW entries, NEW rows,
         \A i \in rows : longer[i] = table[i],
         ListsRows(entries, table, rows)
  PROVE  ListsRows(entries, longer, rows)
BY DEF ListsRows

\* The other threads: a message that they store is not one of this history.
LEMMA HistoryStays ==
  ASSUME IInv, Collected, HistoryIsComplete, UNCHANGED <<http, answer>>, ChatGrows
  PROVE  Collected' /\ HistoryIsComplete'
<1>1. http.rows \in Nat /\ http.rows <= Len(chat) /\ Len(chat) \in Nat
  BY ReaderTypes, Types DEF IInv, Reading, HttpType
<1>2. \A i \in 1..http.rows : chat'[i] = chat[i]
  BY <1>1, SMT DEF ChatGrows
<1>3. HistoryIsComplete'
  <2>1. PICK table, longer, entries, rows :
          /\ table = chat /\ longer = chat' /\ entries = answer.entries
          /\ rows = 1..http.rows
    OBVIOUS
  <2>2. ListsRows(entries, table, rows) => ListsRows(entries, longer, rows)
    <3>1. \A i \in rows : longer[i] = table[i]
      BY <1>2, <2>1
    <3>. QED BY <3>1, ListsStays
  <2>3. entries = answer'.entries /\ rows = 1..http'.rows
    BY <2>1
  <2>. QED BY <2>1, <2>2, <2>3 DEF HistoryIsComplete
<1>4. Collected'
  <2>1. CASE http.pc = "history"
    <3>. DEFINE read == (1..http.rows) \ http.unread
    <3>1. /\ ListsRows(answer.entries, chat, read)
          /\ \A i \in read, j \in http.unread : chat[i].at <= chat[j].at
      BY <2>1 DEF Collected
    <3>2. ListsRows(answer.entries, chat', read)
      <4>1. PICK table, longer, entries, rows :
              /\ table = chat /\ longer = chat' /\ entries = answer.entries /\ rows = read
        OBVIOUS
      <4>2. ListsRows(entries, table, rows) => ListsRows(entries, longer, rows)
        <5>1. \A i \in rows : longer[i] = table[i]
          BY <1>2, <4>1
        <5>. QED BY <5>1, ListsStays
      <4>. QED BY <3>1, <4>1, <4>2
    <3>3. \A i \in read, j \in http.unread : chat'[i].at <= chat'[j].at
      BY <1>2, <2>1, <3>1 DEF IInv, Reading
    <3>. QED BY <3>2, <3>3 DEF Collected
  <2>2. CASE http.pc # "history"
    BY <2>2 DEF Collected
  <2>. QED BY <2>1, <2>2
<1>. QED BY <1>3, <1>4

LEMMA SavingHistory ==
  ASSUME IInv, Once, Collected, HistoryIsComplete, WsSaves, UNCHANGED <<secretsVars, readerVars>>
  PROVE  Once' /\ Collected' /\ HistoryIsComplete'
<1>1. UNCHANGED <<http, answer>> /\ SecretMessagesTypeOK /\ Len(chat) \in Nat
  BY Types DEF readerVars, IInv
<1>2. CASE chat' = chat
  <2>1. ChatGrows
    BY <1>1, <1>2, SMT DEF ChatGrows
  <2>. QED BY <1>1, <1>2, <2>1, HistoryStays DEF Once
<1>3. CASE chat' = Append(chat, Row(ws.frame, ws.text))
  <2>1. ws.pc = "save" /\ ws.frame \in Frames /\ ~Stored(ws.frame)
    BY DEF WsSaves, IInv, Working, WsBusyPcs
  <2>2. PICK row \in ChatRow : chat' = Append(chat, row) /\ row.frame = ws.frame
    <3>1. ws.text \in Replies \cup {"image"} /\ clock \in 1..MaxTime
      BY <2>1, Types DEF IInv, Working
    <3>. QED BY <1>3, <2>1, <3>1 DEF Row, ChatRow
  <2>3. /\ ChatGrows /\ chat'[Len(chat) + 1] = row
        /\ \A i \in 1..Len(chat') : i \in 1..Len(chat) \/ i = Len(chat) + 1
    BY <1>1, <2>2, ChatAppends
  <2>4. \A i \in 1..Len(chat) : chat'[i] = chat[i] /\ chat[i].frame # row.frame
    BY <2>1, <2>2, <2>3 DEF ChatGrows, Stored
  <2>5. Once'
    BY <2>3, <2>4 DEF Once
  <2>. QED BY <1>1, <2>3, <2>5, HistoryStays
<1>. QED BY <1>2, <1>3 DEF WsSaves

LEMMA ReadingHistory ==
  ASSUME IInv, Once, Collected, HistoryReads
  PROVE  Collected' /\ HistoryIsComplete'
<1>. DEFINE read == (1..http.rows) \ http.unread
<1>1. http.pc = "history" /\ chat' = chat /\ SecretMessagesTypeOK
  BY RowsAreListed DEF deliveryVars, IInv
<1>2. PICK i \in Earliest(http.unread) :
        /\ i \in 1..Len(chat)
        /\ http' = [http EXCEPT !.unread = @ \ {i}]
        /\ answer' = [answer EXCEPT !.entries = Append(@, chat[i].frame)]
  BY RowsAreListed
<1>3. i \in http.unread /\ \A j \in http.unread : chat[i].at <= chat[j].at
  BY <1>2 DEF Earliest
<1>4. /\ answer'.entries = Append(answer.entries, chat[i].frame)
      /\ answer.entries \in Seq(Frames)
  BY <1>1, <1>2, ReaderTypes DEF AnswerType, Lists
<1>5. /\ http'.pc = "history" /\ http'.unread = http.unread \ {i} /\ http'.rows = http.rows
      /\ http.unread \subseteq 1..http.rows
  BY <1>1, <1>2, ReaderTypes, HttpCounts DEF IInv, Reading
<1>6. \A j \in 1..http.rows : j \in 1..Len(chat)
  <2>1. http.rows \in Nat /\ http.rows <= Len(chat) /\ Len(chat) \in Nat
    BY ReaderTypes, Types DEF IInv, Reading, HttpType
  <2>. QED BY <2>1, SMT
<1>7. /\ ListsRows(answer.entries, chat, read)
      /\ \A k \in read, j \in http.unread : chat[k].at <= chat[j].at
  BY <1>1 DEF Collected
<1>8. ListsRows(answer'.entries, chat, read \cup {i})
  <2>1. chat[i].frame \in Frames /\ chat[i].at \in Nat
    BY <1>1, <1>2, Types DEF ChatRow
  <2>2. i \notin read /\ \A k \in read : chat[k].at <= chat[i].at
    BY <1>3, <1>7
  <2>3. \A k, l \in read \cup {i} : chat[k].frame = chat[l].frame => k = l
    BY <1>2, <1>6 DEF Once
  <2>4. PICK table, entries, rows :
          table = chat /\ entries = answer.entries /\ rows = read
    OBVIOUS
  <2>5. /\ entries \in Seq(Frames) /\ i \notin rows /\ ListsRows(entries, table, rows)
        /\ \A k, l \in rows \cup {i} : table[k].frame = table[l].frame => k = l
        /\ \A k \in rows : table[k].at <= table[i].at
        /\ table[i].frame \in Frames /\ table[i].at \in Nat
    BY <1>4, <1>7, <2>1, <2>2, <2>3, <2>4
  <2>6. ListsRows(Append(entries, table[i].frame), table, rows \cup {i})
    <3>. HIDE DEF read
    <3>. QED BY <2>5, ListsOneMore
  <2>. QED BY <1>4, <2>4, <2>6
<1>9. (1..http'.rows) \ http'.unread = read \cup {i}
  BY <1>3, <1>5
<1>10. \A k \in read \cup {i}, j \in http'.unread : chat[k].at <= chat[j].at
  BY <1>3, <1>5, <1>7
<1>. QED BY <1>1, <1>5, <1>8, <1>9, <1>10 DEF Collected, HistoryIsComplete

\* A history has one entry for every message stored before its query, by their time, and
\* none of those that are stored while it reads the files (get_chat_history).
THEOREM HistoriesAreComplete == SecretMessagesSpec => []HistoryIsComplete
<1>. DEFINE HInv == Once /\ Collected /\ HistoryIsComplete
<1>1. SecretMessagesInit => HInv
  <2>. SUFFICES ASSUME SecretMessagesInit PROVE HInv
    OBVIOUS
  <2>1. chat = <<>> /\ http.pc = "idle"
    BY DEF SecretMessagesInit, DeliveryInit, HttpIdle
  <2>2. \A i \in 1..Len(chat) : FALSE
    BY <2>1, EmptySeq, SMT
  <2>. QED BY <2>1, <2>2 DEF Once, Collected, HistoryIsComplete
<1>2. ASSUME IInv, HInv, [SecretMessagesNext]_vars
      PROVE  HInv'
  <2>1. ASSUME UNCHANGED <<chat, http, answer>>
        PROVE  HInv'
    <3>1. ChatGrows
      BY <2>1, Types, SMT DEF ChatGrows, IInv
    <3>. QED BY <1>2, <2>1, <3>1, HistoryStays DEF Once
  <2>2. ASSUME chat' = chat, http'.pc # "history",
               http'.pc = "answered" /\ answer'.code = 200 => http'.ask # NoAsk
        PROVE  HInv'
    BY <1>2, <2>2 DEF Once, Collected, HistoryIsComplete
  <2>3. CASE WsThread
    <3>1. CASE WsSaves /\ UNCHANGED <<secretsVars, readerVars>>
      BY <1>2, <3>1, SavingHistory
    <3>2. CASE Encryption \/ ((WsReceives \/ WsExchanges \/ WsTells) /\ UNCHANGED readerVars)
      <4>1. UNCHANGED <<chat, http, answer>>
        BY <3>2 DEF Encryption, Embed, Encode, InsertSecret, WsReceives, WsExchanges, WsTells,
                    readerVars
      <4>. QED BY <2>1, <4>1
    <3>. QED BY <2>3, <3>1, <3>2 DEF WsThread
  <2>4. ASSUME NEW ask \in Asks, HandleDecrypt(ask)
        PROVE  HInv'
    <3>1. chat' = chat /\ SecretMessagesTypeOK
      BY <1>2, <2>4 DEF HandleDecrypt, deliveryVars, IInv
    <3>2. ask # NoAsk /\ HttpIdle \in HttpType /\ NoAnswer \in AnswerType
      BY <3>1, ReaderTypes
    <3>3. ASSUME NEW code \in Codes \ {200}, answer' = [NoAnswer EXCEPT !.code = code],
                 http'.pc # "history"
          PROVE  HInv'
      BY <2>2, <3>1, <3>3, Answered
    <3>4. HttpIdle.pc = "idle"
      BY DEF HttpIdle
    <3>5. PICK h \in HttpType : h = WithAsk(HttpIdle, ask) /\ h.pc = "answered" /\ h.ask = ask
      BY <3>2, HttpAsks DEF MaybeAsks
    <3>6. CASE http' = [HttpIdle EXCEPT !.pc = "answered"]
               /\ answer' = [NoAnswer EXCEPT !.code = 500]
      BY <3>2, <3>3, <3>6, HttpFields DEF Codes
    <3>7. CASE http' = h /\ answer' = [NoAnswer EXCEPT !.code = 403]
      BY <3>3, <3>5, <3>7 DEF Codes
    <3>8. ASSUME NEW row, http' = WithRow(h, row)
          PROVE  HInv'
      BY <2>2, <3>1, <3>5, <3>8 DEF WithRow, HttpType
    <3>. QED BY <2>4, <3>5, <3>6, <3>7, <3>8 DEF HandleDecrypt, WithAsk, WithRow
  <2>5. CASE DecryptReads
    <3>1. chat' = chat /\ SecretMessagesTypeOK /\ http.pc = "decrypt"
      BY <1>2, <2>5 DEF DecryptReads, deliveryVars, IInv
    <3>2. http.ask # NoAsk /\ http \in HttpType
      BY <1>2, <3>1, ReaderTypes DEF IInv, Opened
    <3>3. http' = [http EXCEPT !.pc = "answered", !.row = NoFrame]
      BY <2>5 DEF DecryptReads, Decrypts
    <3>4. http'.pc = "answered" /\ http'.ask = http.ask
      BY <3>2, <3>3, HttpMoves
    <3>. QED BY <2>2, <3>1, <3>2, <3>4
  <2>6. CASE HandleHistory
    <3>1. chat' = chat /\ SecretMessagesTypeOK /\ HttpIdle \in HttpType /\ NoAnswer \in AnswerType
          /\ NoAnswer.entries = <<>>
      BY <1>2, <2>6, ReaderTypes DEF HandleHistory, deliveryVars, IInv
    <3>2. CASE /\ http' = [HttpIdle EXCEPT !.pc = "answered"]
               /\ answer' = [NoAnswer EXCEPT !.code = 500]
      <4>1. http'.pc = "answered" /\ answer'.code = 500
        BY <3>1, <3>2 DEF HttpType, AnswerType
      <4>. QED BY <2>2, <3>1, <4>1
    <3>3. CASE /\ http' = [HttpIdle EXCEPT !.pc = "history", !.rows = Len(chat),
                                            !.unread = 1..Len(chat)]
               /\ answer' = NoAnswer
      <4>1. /\ http'.pc = "history" /\ http'.rows = Len(chat) /\ http'.unread = 1..Len(chat)
            /\ answer'.entries = <<>>
        BY <3>1, <3>3 DEF HttpType
      <4>2. (1..http'.rows) \ http'.unread = {}
        BY <4>1
      <4>3. ListsRows(<<>>, chat, {})
        <5>1. \A k \in 1..Len(<<>>) : FALSE
          BY EmptySeq, SMT
        <5>. QED BY <5>1 DEF ListsRows
      <4>. QED BY <1>2, <3>1, <4>1, <4>2, <4>3 DEF Once, Collected, HistoryIsComplete
    <3>. QED BY <2>6, <3>2, <3>3 DEF HandleHistory
  <2>7. CASE HistoryReads
    <3>1. chat' = chat
      BY <2>7 DEF HistoryReads, deliveryVars
    <3>. QED BY <1>2, <2>7, <3>1, ReadingHistory DEF Once
  <2>8. CASE HistoryAnswers
    <3>1. chat' = chat /\ http.pc = "history" /\ http.unread = {} /\ SecretMessagesTypeOK
      BY <1>2, <2>8 DEF HistoryAnswers, deliveryVars, IInv
    <3>2. http'.pc = "answered" /\ http'.rows = http.rows
      BY <2>8, <3>1, ReaderTypes, HttpFields DEF HistoryAnswers
    <3>3. answer'.entries = answer.entries
      BY <2>8, <3>1, ReaderTypes DEF HistoryAnswers, AnswerType
    <3>4. (1..http.rows) \ http.unread = 1..http.rows
      BY <3>1
    <3>5. ListsRows(answer.entries, chat, 1..http.rows)
      BY <1>2, <3>1, <3>4 DEF Collected
    <3>. QED BY <1>2, <3>1, <3>2, <3>3, <3>5 DEF Once, Collected, HistoryIsComplete
  <2>9. CASE ProcessEnds
    <3>1. chat' = chat /\ http'.pc = "idle"
      BY <2>9 DEF ProcessEnds, DeliveryDies, HttpIdle
    <3>. QED BY <2>2, <3>1
  <2>10. CASE /\ (\E f \in Frames : ClientSends(f)) \/ WsStarts \/ ClockTicks
              /\ UNCHANGED <<secretsVars, readerVars>>
    <3>1. UNCHANGED <<chat, http, answer>>
      BY <2>10 DEF ClientSends, WsStarts, ClockTicks, readerVars
    <3>. QED BY <2>1, <3>1
  <2>11. CASE UNCHANGED vars
    BY <2>1, <2>11 DEF vars
  <2>. HIDE DEF HInv
  <2>. QED BY <1>2, <2>3, <2>4, <2>5, <2>6, <2>7, <2>8, <2>9, <2>10, <2>11
           DEF SecretMessagesNext, Reader
<1>3. HInv => HistoryIsComplete
  OBVIOUS
<1>. HIDE DEF HInv
<1>. QED BY <1>1, <1>2, <1>3, SecretMessagesInvariant, PTL DEF SecretMessagesSpec
-----------------------------------------------------------------------------
(* The files and the rows, relative to IInv.                               *)

\* What every step keeps of the frames that have ended.
EndedStays ==
  /\ \A f \in Frames : fate[f] = "lost" => fate'[f] = "lost"
  /\ \A f \in Frames : told[f] # <<>> => told'[f] = told[f]

\* The frame of the thread ends.
LEMMA EndingStays ==
  ASSUME IInv, NEW f \in Frames, NEW answers, Ends(f, answers),
         fate[f] \in {"waiting", "taken"}
  PROVE  EndedStays /\ told'[f] = answers
<1>1. /\ \A g \in Frames : g # f => fate'[g] = fate[g] /\ told'[g] = told[g]
      /\ told'[f] = answers
  BY WsTypes DEF IInv, Ends
<1>2. told[f] = <<>>
  BY DEF IInv, Waiting
<1>. QED BY <1>1, <1>2 DEF EndedStays

\* Steps that touch neither the files nor the table of secrets.
LEMMA FilesStay ==
  ASSUME IInv, FilesMatchRows, UNCHANGED <<images, texts, secrets>>, EndedStays,
         clock' = clock \/ ClockTicks,
         ws.pc \in {"encode", "insert"} =>
           \/ fate'[ws.frame] = "lost"
           \/ ws'.pc = ws.pc /\ ws'.frame = ws.frame
  PROVE  FilesMatchRows'
<1>1. \A f \in Frames : HasSecretRow(f, clock) => HasSecretRow(f, clock)'
  <2>1. \A j \in 1..Len(secrets) : secrets[j].at \in Nat
    BY Types DEF IInv, SecretRow
  <2>2. clock \in Nat /\ clock' \in Nat /\ clock <= clock'
    BY Types, SMT DEF IInv, ClockTicks
  <2>. QED BY <2>1, <2>2, SMT DEF HasSecretRow
<1>2. \A f \in Frames : images'[f] # "none" =>
        \/ HasSecretRow(f, clock)'
        \/ ws'.pc \in {"encode", "insert"} /\ ws'.frame = f
        \/ fate'[f] = "lost" \/ told'[f] = <<"http", "error">>
  <2>1. \A f \in Frames : told[f] = <<"http", "error">> => told'[f] = <<"http", "error">>
    <3>1. <<"http", "error">> # <<>>
      OBVIOUS
    <3>. QED BY <3>1 DEF EndedStays
  <2>. QED BY <1>1, <2>1 DEF FilesMatchRows, EndedStays
<1>3. \A j \in 1..Len(secrets') :
        /\ images'[secrets'[j].frame] # "none" /\ secrets'[j].frame \in texts'
        /\ \A k \in 1..Len(secrets') : secrets'[k].frame = secrets'[j].frame => k = j
  BY DEF FilesMatchRows
<1>. QED BY <1>2, <1>3 DEF FilesMatchRows

\* process_message outside of handle_encrypt_message.
LEMMA ThreadKeepsFiles ==
  ASSUME IInv, FilesMatchRows, WsReceives \/ WsExchanges \/ WsSaves \/ WsTells,
         UNCHANGED secretsVars
  PROVE  FilesMatchRows'
<1>1. UNCHANGED <<images, texts, secrets>> /\ clock' = clock
  BY DEF secretsVars, WsReceives, WsExchanges, WsSaves, WsTells
<1>2. ws.pc \notin {"encode", "insert"}
  BY DEF WsReceives, WsExchanges, WsSaves, WsTells
<1>3. ASSUME WsReceives PROVE EndedStays
  <2>1. inbox # <<>> /\ inbox \in Seq(Frames)
    BY <1>3, Types DEF IInv, WsReceives
  <2>2. PICK f \in Frames : f = Head(inbox)
    BY <2>1, HeadTailProperties
  <2>3. fate[f] = "waiting"
    <3>1. f = inbox[1] /\ 1 \in 1..Len(inbox)
      BY <2>1, <2>2, HeadTailProperties, EmptySeq, SMT
    <3>. QED BY <3>1 DEF IInv, Waiting
  <2>4. CASE Ends(f, <<"error">>)
    BY <2>3, <2>4, EndingStays
  <2>5. CASE fate' = [fate EXCEPT ![f] = "taken"] /\ told' = told
    BY <2>3, <2>5, WsTypes DEF IInv, EndedStays
  <2>. QED BY <1>3, <2>2, <2>4, <2>5 DEF WsReceives
<1>4. ASSUME WsExchanges \/ WsSaves \/ WsTells PROVE EndedStays
  <2>1. ws.pc \in WsBusyPcs
    BY <1>4 DEF WsExchanges, WsSaves, WsTells, WsBusyPcs
  <2>2. PICK f \in Frames : f = ws.frame /\ fate[f] = "taken"
    BY <2>1, NobodyElse
  <2>3. UNCHANGED <<fate, told>> \/ \E answers : Ends(f, answers)
    BY <1>4, <2>2 DEF WsExchanges, WsSaves, WsTells
  <2>4. CASE UNCHANGED <<fate, told>>
    BY <2>4 DEF EndedStays
  <2>5. ASSUME NEW answers, Ends(f, answers) PROVE EndedStays
    BY <2>2, <2>5, EndingStays
  <2>. QED BY <2>3, <2>4, <2>5
<1>. QED BY <1>1, <1>2, <1>3, <1>4, FilesStay

\* handle_encrypt_message: files first, the row last, and an error if it does not get there.
LEMMA EncryptionKeepsFiles ==
  ASSUME IInv, FilesMatchRows, Encryption
  PROVE  FilesMatchRows'
<1>1. ws.pc \in {"embed", "encode", "insert"} /\ clock' = clock
  BY DEF Encryption, Embed, Encode, InsertSecret
<1>2. PICK f \in Frames : f = ws.frame /\ fate[f] = "taken" /\ told[f] = <<>>
  BY <1>1, NobodyElse DEF WsBusyPcs
<1>3. ~HasSecret(f)
  BY <1>1, <1>2 DEF IInv, Making
<1>4. /\ images \in [Frames -> {"none", "whole", "cut"}]
      /\ texts \subseteq Frames
      /\ Len(secrets) \in Nat
      /\ \A j \in 1..Len(secrets) : secrets[j].frame \in Frames /\ secrets[j].frame # f
  BY <1>3, Types DEF IInv, SecretMessagesTypeOK, HasSecret
<1>5. /\ \A g \in Frames : g # f => images'[g] = images[g] /\ (g \in texts' <=> g \in texts)
      /\ images[f] # "none" => images'[f] # "none"
  BY <1>2, <1>4 DEF Encryption, Embed, Encode, InsertSecret
<1>6. \/ Ends(f, <<"http", "error">>)
      \/ /\ UNCHANGED <<fate, told>> /\ ws'.frame = f
         /\ \/ ws'.pc \in {"encode", "insert"}
            \/ ws'.pc = "save" /\ secrets' = Append(secrets, [frame |-> f, at |-> clock])
  BY <1>2, WsTypes DEF IInv, Encryption, Embed, Encode, InsertSecret, Gives500
<1>7. /\ SecretsGrow /\ Len(secrets') \in Nat
      /\ \/ secrets' = secrets
         \/ /\ Len(secrets') = Len(secrets) + 1
            /\ secrets'[Len(secrets) + 1].frame = f
            /\ images'[f] # "none" /\ f \in texts'
            /\ HasSecretRow(f, clock)'
      /\ secrets' = Append(secrets, [frame |-> f, at |-> clock]) => HasSecretRow(f, clock)'
  <2>1. CASE secrets' = secrets
    <3>1. secrets' # Append(secrets, [frame |-> f, at |-> clock])
      <4>1. [frame |-> f, at |-> clock] \in SecretRow
        BY Types DEF IInv, SecretRow
      <4>2. Len(Append(secrets, [frame |-> f, at |-> clock])) = Len(secrets) + 1
        BY <4>1, Types, AppendProperties DEF IInv
      <4>. QED BY <1>4, <2>1, <4>2, SMT
    <3>2. SecretsGrow
      BY <1>4, <2>1, SMT DEF SecretsGrow
    <3>. QED BY <1>4, <2>1, <3>1, <3>2
  <2>2. CASE secrets' = Append(secrets, [frame |-> f, at |-> clock]) /\ ws.pc = "insert"
             /\ UNCHANGED <<images, texts>>
    <3>1. PICK row \in SecretRow : row = [frame |-> f, at |-> clock]
      BY Types DEF IInv, SecretRow
    <3>2. /\ SecretsGrow /\ Len(secrets') \in Nat /\ Len(secrets') = Len(secrets) + 1
          /\ Len(secrets) + 1 \in 1..Len(secrets') /\ secrets'[Len(secrets) + 1] = row
      BY <2>2, <3>1, SecretsAppend DEF IInv
    <3>3. row.frame = f /\ row.at = clock /\ clock <= clock
      BY <3>1, Types, SMT DEF IInv
    <3>4. HasSecretRow(f, clock)'
      BY <1>1, <3>2, <3>3 DEF HasSecretRow
    <3>5. images'[f] # "none" /\ f \in texts'
      BY <1>2, <2>2 DEF IInv, Making
    <3>. QED BY <3>2, <3>3, <3>4, <3>5
  <2>. QED BY <1>2, <2>1, <2>2 DEF Encryption, Embed, Encode, InsertSecret
<1>8. \A j \in 1..Len(secrets') :
        \/ j \in 1..Len(secrets) /\ secrets'[j] = secrets[j] /\ secrets'[j].frame # f
        \/ /\ j = Len(secrets) + 1 /\ Len(secrets') = Len(secrets) + 1
           /\ secrets'[j].frame = f /\ images'[f] # "none" /\ f \in texts'
  <2>1. CASE secrets' = secrets
    BY <1>4, <2>1
  <2>2. CASE secrets' # secrets
    <3>1. \A j \in 1..Len(secrets') : j \in 1..Len(secrets) \/ j = Len(secrets) + 1
      BY <1>4, <1>7, <2>2, SMT
    <3>. QED BY <1>4, <1>7, <2>2, <3>1 DEF SecretsGrow
  <2>. QED BY <2>1, <2>2
<1>9. \A j \in 1..Len(secrets') :
        /\ images'[secrets'[j].frame] # "none" /\ secrets'[j].frame \in texts'
        /\ \A k \in 1..Len(secrets') : secrets'[k].frame = secrets'[j].frame => k = j
  <2>. SUFFICES ASSUME NEW j \in 1..Len(secrets')
                PROVE  /\ images'[secrets'[j].frame] # "none"
                       /\ secrets'[j].frame \in texts'
                       /\ \A k \in 1..Len(secrets') :
                            secrets'[k].frame = secrets'[j].frame => k = j
    OBVIOUS
  <2>1. CASE secrets'[j].frame = f
    BY <1>8, <2>1
  <2>2. CASE secrets'[j].frame # f
    <3>1. j \in 1..Len(secrets) /\ secrets'[j] = secrets[j] /\ secrets[j].frame \in Frames
      BY <1>4, <1>8, <2>2
    <3>2. images'[secrets'[j].frame] # "none" /\ secrets'[j].frame \in texts'
      BY <1>5, <2>2, <3>1 DEF FilesMatchRows
    <3>3. ASSUME NEW k \in 1..Len(secrets'), secrets'[k].frame = secrets'[j].frame
          PROVE  k = j
      <4>1. k \in 1..Len(secrets) /\ secrets'[k] = secrets[k]
        BY <1>8, <2>2, <3>3
      <4>. QED BY <3>1, <3>3, <4>1 DEF FilesMatchRows
    <3>. QED BY <3>2, <3>3
  <2>. QED BY <2>1, <2>2
<1>10. ASSUME NEW g \in Frames, images'[g] # "none"
       PROVE  \/ HasSecretRow(g, clock)'
              \/ ws'.pc \in {"encode", "insert"} /\ ws'.frame = g
              \/ fate'[g] = "lost" \/ told'[g] = <<"http", "error">>
  <2>1. CASE g = f
    <3>1. Ends(f, <<"http", "error">>) => told'[f] = <<"http", "error">>
      BY <1>2, EndingStays
    <3>. QED BY <1>6, <1>7, <2>1, <3>1
  <2>2. CASE g # f
    <3>1. \/ HasSecretRow(g, clock)
          \/ fate[g] = "lost" \/ told[g] = <<"http", "error">>
      BY <1>2, <1>5, <1>10, <2>2 DEF FilesMatchRows
    <3>2. HasSecretRow(g, clock) => HasSecretRow(g, clock)'
      <4>1. \A j \in 1..Len(secrets) : j \in 1..Len(secrets') /\ secrets'[j] = secrets[j]
        BY <1>4, <1>7, SMT DEF SecretsGrow
      <4>. QED BY <1>1, <4>1 DEF HasSecretRow
    <3>3. fate'[g] = fate[g] /\ told'[g] = told[g]
      BY <1>6, <2>2, WsTypes DEF IInv, Ends
    <3>. QED BY <3>1, <3>2, <3>3
  <2>. QED BY <2>1, <2>2
<1>. QED BY <1>9, <1>10 DEF FilesMatchRows

\* The files that a step leaves behind are explained (encryption.c:186-254), and the secrets
\* that can be found have theirs.
THEOREM FilesMatchTheRows == SecretMessagesSpec => []FilesMatchRows
<1>1. SecretMessagesInit => FilesMatchRows
  <2>. SUFFICES ASSUME SecretMessagesInit PROVE FilesMatchRows
    OBVIOUS
  <2>1. secrets = <<>> /\ \A f \in Frames : images[f] = "none"
    BY DEF SecretMessagesInit
  <2>2. \A j \in 1..Len(secrets) : FALSE
    BY <2>1, EmptySeq, SMT
  <2>. QED BY <2>1, <2>2 DEF FilesMatchRows
<1>2. ASSUME IInv, FilesMatchRows, [SecretMessagesNext]_vars
      PROVE  FilesMatchRows'
  <2>1. CASE Encryption
    BY <1>2, <2>1, EncryptionKeepsFiles
  <2>2. CASE (WsReceives \/ WsExchanges \/ WsSaves \/ WsTells) /\ UNCHANGED secretsVars
    BY <1>2, <2>2, ThreadKeepsFiles
  <2>3. CASE Reader \/ UNCHANGED vars
    <3>1. UNCHANGED <<images, texts, secrets, fate, told, ws, clock>>
      BY <2>3 DEF Reader, HandleDecrypt, DecryptReads, HandleHistory, HistoryReads,
         HistoryAnswers, deliveryVars, secretsVars, vars
    <3>2. EndedStays
      BY <3>1 DEF EndedStays
    <3>. QED BY <1>2, <3>1, <3>2, FilesStay
  <2>4. CASE ProcessEnds
    <3>1. UNCHANGED <<images, texts, secrets, told, clock>>
      BY <2>4 DEF ProcessEnds, DeliveryDies
    <3>2. \A f \in Frames : fate[f] \in {"lost", "taken"} => fate'[f] = "lost"
      BY <1>2, <2>4, WsTypes DEF IInv, ProcessEnds, DeliveryDies
    <3>3. EndedStays
      BY <3>1, <3>2 DEF EndedStays
    <3>4. ws.pc \in {"encode", "insert"} => fate'[ws.frame] = "lost"
      BY <1>2, <3>2, NobodyElse DEF WsBusyPcs
    <3>. QED BY <1>2, <3>1, <3>3, <3>4, FilesStay
  <2>5. CASE /\ (\E f \in Frames : ClientSends(f)) \/ WsStarts \/ ClockTicks
             /\ UNCHANGED secretsVars
    <3>1. UNCHANGED <<images, texts, secrets, told>> /\ (clock' = clock \/ ClockTicks)
      BY <2>5 DEF secretsVars, ClientSends, WsStarts, ClockTicks
    <3>2. ws.pc \in {"encode", "insert"} => ws' = ws
      BY <2>5 DEF ClientSends, WsStarts, ClockTicks
    <3>3. \A f \in Frames : fate[f] = "lost" => fate'[f] = "lost"
      <4>1. ASSUME NEW g \in Frames, ClientSends(g), NEW f \in Frames, fate[f] = "lost"
            PROVE  fate'[f] = "lost"
        BY <1>2, <4>1, WsTypes DEF IInv, ClientSends
      <4>. QED BY <2>5, <4>1 DEF WsStarts, ClockTicks
    <3>4. EndedStays
      BY <3>1, <3>3 DEF EndedStays
    <3>. QED BY <1>2, <3>1, <3>2, <3>4, FilesStay
  <2>. QED BY <1>2, <2>1, <2>2, <2>3, <2>4, <2>5 DEF SecretMessagesNext, WsThread
<1>. QED BY <1>1, <1>2, SecretMessagesInvariant, PTL DEF SecretMessagesSpec
-----------------------------------------------------------------------------
(* What FramesEnd rests on.                                                *)

\* How many steps are left of process_message at most.
StepsLeft ==
  [pc \in {"off", "idle"} \cup WsBusyPcs |->
     CASE pc = "exchange" -> 6 [] pc = "embed" -> 5 [] pc = "encode" -> 4
       [] pc = "insert" -> 3 [] pc = "save" -> 2 [] pc = "tell" -> 1 [] OTHER -> 0]

WorkLeft == 7 * Len(inbox) + StepsLeft[ws.pc]

LEMMA StepsAreLeft ==
  /\ StepsLeft["off"] = 0 /\ StepsLeft["idle"] = 0 /\ StepsLeft["exchange"] = 6
  /\ StepsLeft["embed"] = 5 /\ StepsLeft["encode"] = 4 /\ StepsLeft["insert"] = 3
  /\ StepsLeft["save"] = 2 /\ StepsLeft["tell"] = 1
  /\ \A pc \in {"off", "idle"} \cup WsBusyPcs : StepsLeft[pc] \in 0..6
BY DEF StepsLeft, WsBusyPcs

LEMMA FramesWeighMore ==
  ASSUME NEW m \in Nat, NEW n \in Nat, NEW x \in 0..6, NEW y \in 0..6
  PROVE  /\ 7 * m + x \in Nat /\ 7 * n + y \in Nat
         /\ n = m /\ y < x => 7 * n + y < 7 * m + x
         /\ n = m - 1 /\ x = 0 => 7 * n + y < 7 * m + x
         /\ n = 0 /\ y = 0 => 7 * n + y <= 7 * m + x
BY SMT

\* The work grows with the steps that are left, and with the frames that wait more so.
LEMMA WorkIsOrdered ==
  ASSUME Len(inbox) \in Nat, Len(inbox') \in Nat, NEW x \in 0..6, NEW y \in 0..6,
         x = StepsLeft[ws.pc], y = StepsLeft[ws'.pc]
  PROVE  /\ WorkLeft \in Nat /\ WorkLeft' \in Nat
         /\ Len(inbox') = Len(inbox) /\ y < x => WorkLeft' < WorkLeft
         /\ Len(inbox') = Len(inbox) /\ y = x => WorkLeft' = WorkLeft
         /\ Len(inbox') = Len(inbox) - 1 /\ x = 0 => WorkLeft' < WorkLeft
         /\ Len(inbox') = 0 /\ y = 0 => WorkLeft' <= WorkLeft
<1>1. WorkLeft = 7 * Len(inbox) + x /\ WorkLeft' = 7 * Len(inbox') + y
  BY DEF WorkLeft
<1>. QED BY <1>1, FramesWeighMore

\* The thread never goes back: each of its steps, whatever fails in it, brings it nearer to
\* the end of its frames, with no step repeated, and no other thread adds to its work; only
\* a client does that, with a new frame.  So all frames that wait have ended after WorkLeft
\* steps of the thread (websocket_server.c:16-86, encryption.c:94-255).
THEOREM EveryStepIsProgress ==
  SecretMessagesSpec => [][/\ WsThread => WorkLeft' < WorkLeft
                           /\ WorkLeft' > WorkLeft => \E f \in Frames : ClientSends(f)]_vars
<1>1. ASSUME IInv, IInv', [SecretMessagesNext]_vars
      PROVE  [/\ WsThread => WorkLeft' < WorkLeft
              /\ WorkLeft' > WorkLeft => \E f \in Frames : ClientSends(f)]_vars
  <2>1. /\ Len(inbox) \in Nat /\ inbox \in Seq(Frames) /\ Len(inbox') \in Nat
        /\ ws'.pc \in {"off", "idle"} \cup WsBusyPcs
        /\ ws.pc \in {"off", "idle"} \cup WsBusyPcs
    <3>1. DeliveryTypeOK /\ DeliveryTypeOK' /\ SecretMessagesTypeOK
      BY <1>1 DEF IInv, SecretMessagesTypeOK
    <3>2. inbox \in Seq(Frames) /\ inbox' \in Seq(Frames)
      BY <3>1 DEF DeliveryTypeOK
    <3>3. /\ ws'.pc \in {"off", "idle"} \cup WsBusyPcs
          /\ ws.pc \in {"off", "idle"} \cup WsBusyPcs
      BY <3>1 DEF DeliveryTypeOK
    <3>. QED BY <3>2, <3>3, LenProperties
  <2>2. PICK x \in 0..6, y \in 0..6 : x = StepsLeft[ws.pc] /\ y = StepsLeft[ws'.pc]
    BY <2>1, StepsAreLeft
  <2>3. /\ WorkLeft \in Nat /\ WorkLeft' \in Nat
        /\ Len(inbox') = Len(inbox) /\ y < x => WorkLeft' < WorkLeft
        /\ Len(inbox') = Len(inbox) /\ y = x => WorkLeft' = WorkLeft
        /\ Len(inbox') = Len(inbox) - 1 /\ x = 0 => WorkLeft' < WorkLeft
        /\ Len(inbox') = 0 /\ y = 0 => WorkLeft' <= WorkLeft
    BY <2>1, <2>2, WorkIsOrdered
  <2>4. /\ WsIdle.pc = "idle"
        /\ ws \in [pc : {"off", "idle"} \cup WsBusyPcs, frame : Frames \cup {NoFrame},
                   text : Replies \cup {"none", "image"}]
    BY <1>1, WsTypes DEF IInv
  <2>5. ASSUME WsReceives PROVE WorkLeft' < WorkLeft
    <3>1. Len(inbox') = Len(inbox) - 1 /\ ws.pc = "idle"
      BY <2>1, <2>5, HeadTailProperties DEF WsReceives
    <3>. QED BY <2>2, <2>3, <3>1, StepsAreLeft
  <2>6. ASSUME Encryption \/ WsExchanges \/ WsSaves \/ WsTells PROVE WorkLeft' < WorkLeft
    <3>1. inbox' = inbox
      BY <2>6 DEF Encryption, Embed, Encode, InsertSecret, WsExchanges, WsSaves, WsTells
    <3>2. \/ ws.pc \in WsBusyPcs /\ ws'.pc = "idle"
          \/ ws.pc = "exchange" /\ ws'.pc \in {"embed", "save"}
          \/ ws.pc = "embed" /\ ws'.pc = "encode"
          \/ ws.pc = "encode" /\ ws'.pc = "insert"
          \/ ws.pc = "insert" /\ ws'.pc = "save"
          \/ ws.pc = "save" /\ ws'.pc = "tell"
      <4>1. CASE Encryption
        BY <2>4, <4>1 DEF Encryption, Embed, Encode, InsertSecret, Gives500, Ends, WsBusyPcs
      <4>2. CASE WsExchanges
        BY <2>4, <4>2 DEF WsExchanges, Ends, WsBusyPcs
      <4>3. CASE WsSaves
        BY <2>4, <4>3 DEF WsSaves, Ends, WsBusyPcs
      <4>4. CASE WsTells
        BY <2>4, <4>4 DEF WsTells, Ends, WsBusyPcs
      <4>. QED BY <2>6, <4>1, <4>2, <4>3, <4>4
    <3>3. y < x
      BY <2>2, <3>2, StepsAreLeft, SMT DEF WsBusyPcs
    <3>. QED BY <2>1, <2>3, <3>1, <3>3
  <2>7. ASSUME Reader \/ WsStarts \/ ClockTicks \/ UNCHANGED vars PROVE WorkLeft' = WorkLeft
    <3>1. inbox' = inbox /\ (ws'.pc = ws.pc \/ (ws.pc = "off" /\ ws'.pc = "idle"))
      BY <2>4, <2>7 DEF Reader, HandleDecrypt, DecryptReads, HandleHistory, HistoryReads,
         HistoryAnswers, WsStarts, ClockTicks, deliveryVars, vars
    <3>. QED BY <2>1, <2>2, <2>3, <3>1, StepsAreLeft
  <2>8. ASSUME ProcessEnds PROVE WorkLeft' <= WorkLeft
    <3>1. ws'.pc = "off" /\ Len(inbox') = 0
      BY <1>1, <2>8, WsTypes, EmptySeq DEF IInv, ProcessEnds, DeliveryDies
    <3>. QED BY <2>2, <2>3, <3>1, StepsAreLeft
  <2>9. WsThread => WorkLeft' < WorkLeft
    BY <2>5, <2>6 DEF WsThread
  <2>10. WorkLeft' > WorkLeft => \E f \in Frames : ClientSends(f)
    <3>. SUFFICES ASSUME WorkLeft' > WorkLeft PROVE \E f \in Frames : ClientSends(f)
      OBVIOUS
    <3>1. /\ ~(WorkLeft' < WorkLeft) /\ ~(WorkLeft' = WorkLeft) /\ ~(WorkLeft' <= WorkLeft)
      BY <2>3, SMT
    <3>. QED BY <1>1, <2>7, <2>8, <2>9, <3>1 DEF SecretMessagesNext
  <2>. QED BY <2>9, <2>10
<1>. QED BY <1>1, SecretMessagesInvariant, PTL DEF SecretMessagesSpec
=====
