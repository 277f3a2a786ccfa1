---------------------------- MODULE SecretMessages ----------------------------
(***************************************************************************)
(* Secret messages.  handle_encrypt_message, on the WebSocket thread, hides *)
(* the ciphertext in a copy of a picture, writes the picture as text into a *)
(* second file, and inserts a row into secret_message on a connection of    *)
(* its own; then process_message inserts the row of chat_message (module    *)
(* Delivery).  handle_decrypt_message and get_chat_history, on the HTTP     *)
(* thread, read the two tables and the two files.  The tables and the files *)
(* outlive the process; where the files are is in its environment.         *)
(***************************************************************************)
EXTENDS Delivery

CONSTANTS Crashes,      \* TRUE: the process may end, and be started anew
          StaleReads    \* TRUE: memory that was freed may have been used again

ASSUME CrashesAssumption == Crashes \in BOOLEAN /\ StaleReads \in BOOLEAN

VARIABLES images,    \* picture files, named by their frame: how much of the secret they hold
          texts,     \* the frames of which there is a text file
          secrets,   \* the rows of secret_message, in order of insertion
          env,       \* IMAGE_OUTPUT_DIR is set in this process
          http,      \* the HTTP thread: where its handler stands; what it was asked, for a
                     \* request that the queries have not refused
          answer     \* what it has answered last

secretsVars == <<images, texts, secrets, env>>
readerVars == <<http, answer>>
vars == <<frame, fate, inbox, ws, wsdb, told, chat, unsaved, clock,
          images, texts, secrets, env, http, answer>>

NoAsk == [sender |-> 0, at |-> 0, key |-> NoKey]
HttpIdle == [pc |-> "idle", ask |-> NoAsk, row |-> NoFrame, rows |-> 0, unread |-> {}]
NoAnswer == [code |-> 0, secret |-> NoFrame, entries |-> <<>>]

\* What comes out when the picture did not hold all of the ciphertext, or another key.
Garbage == NoFrame

Asks == [sender : Senders, at : 1..MaxTime, key : Keys]

SecretMessagesTypeOK ==
  /\ DeliveryTypeOK
  /\ images \in [Frames -> {"none", "whole", "cut"}]
  /\ texts \subseteq Frames
  /\ secrets \in Seq([frame : Frames, at : 1..MaxTime])
  /\ env \in BOOLEAN
  /\ http \in [pc : {"idle", "decrypt", "history", "answered"}, ask : Asks \cup {NoAsk},
               row : Frames \cup {NoFrame}, rows : Nat, unread : SUBSET Nat]
  /\ answer \in [code : {0, 200, 403, 500}, secret : Frames \cup {NoFrame},
                 entries : Seq(Frames)]

SecretMessagesInit ==
  /\ DeliveryInit
  /\ images = [f \in Frames |-> "none"]
  /\ texts = {}
  /\ secrets = <<>>
  /\ env = FALSE
  /\ http = HttpIdle
  /\ answer = NoAnswer
-----------------------------------------------------------------------------
(* handle_encrypt_message.                                                 *)

\* It answers the WebSocket connection in HTTP and returns NULL; an error follows.
Gives500 == Ends(ws.frame, <<"http", "error">>)

Embed_TextLater ==
  /\ ws.pc = "embed"
  /\ env' = TRUE
  /\ ws' = [ws EXCEPT !.pc = "insert"]
  /\ images' = [images EXCEPT ![ws.frame] = "whole"]
  /\ UNCHANGED <<frame, fate, inbox, wsdb, told, chat, unsaved, clock, texts, secrets, readerVars>>

\* The environment, key and IV, the ciphertext, a picture, and its copy with the message.
\* What can be read from the copy later is a part of it when the ciphertext has a zero byte
\* in it, fills its buffer, or is too long for the picture (Steganography); the model leaves
\* open which secrets these are.  There is no picture, or a file cannot be opened: 500.
Embed ==
  /\ ws.pc = "embed"
  /\ env' = TRUE
  /\ \/ Gives500 /\ UNCHANGED images
     \/ /\ \E held \in {"whole", "cut"} : images' = [images EXCEPT ![ws.frame] = held]
        /\ ws' = [ws EXCEPT !.pc = "encode"]
        /\ UNCHANGED <<fate, told>>
  /\ UNCHANGED <<frame, inbox, wsdb, chat, unsaved, clock, texts, secrets, readerVars>>

\* Up to MAX_READ_SIZE bytes of the copy, in Base64, into the text file.
Encode ==
  /\ ws.pc = "encode"
  /\ \/ Faults /\ Gives500 /\ UNCHANGED texts
     \/ /\ texts' = texts \cup {ws.frame}
        /\ ws' = [ws EXCEPT !.pc = "insert"]
        /\ UNCHANGED <<fate, told>>
  /\ UNCHANGED <<frame, inbox, wsdb, chat, unsaved, clock, images, secrets, env, readerVars>>

InsertSecret_NoTime ==
  /\ ws.pc = "insert"
  /\ secrets' = Append(secrets, [frame |-> ws.frame, at |-> 0])
  /\ ws' = [ws EXCEPT !.pc = "save", !.text = "image"]
  /\ UNCHANGED <<frame, fate, inbox, wsdb, told, chat, unsaved, clock, images, texts, env, readerVars>>

InsertSecret_ReturnsNull ==
  /\ ws.pc = "insert"
  /\ secrets' = Append(secrets, [frame |-> ws.frame, at |-> clock])
  /\ Ends(ws.frame, <<"error">>)
  /\ UNCHANGED <<frame, inbox, wsdb, chat, unsaved, clock, images, texts, env, readerVars>>

InsertSecret_Retries ==
  /\ ws.pc = "insert"
  /\ secrets' = Append(secrets, [frame |-> ws.frame, at |-> clock])
  /\ \/ ws' = [ws EXCEPT !.pc = "save", !.text = "image"]
     \/ Faults /\ UNCHANGED ws
  /\ UNCHANGED <<frame, fate, inbox, wsdb, told, chat, unsaved, clock, images, texts, env, readerVars>>

\* INSERT INTO secret_message ... NOW(), on a new connection; its reply, too, may be lost.
InsertSecret ==
  /\ ws.pc = "insert"
  /\ \/ Faults /\ Gives500 /\ UNCHANGED secrets
     \/ /\ secrets' = Append(secrets, [frame |-> ws.frame, at |-> clock])
        /\ \/ ws' = [ws EXCEPT !.pc = "save", !.text = "image"] /\ UNCHANGED <<fate, told>>
           \/ Faults /\ Gives500
  /\ UNCHANGED <<frame, inbox, wsdb, chat, unsaved, clock, images, texts, env, readerVars>>
-----------------------------------------------------------------------------
(* handle_decrypt_message.                                                 *)

Decrypts(code, secret) ==
  /\ http' = [http EXCEPT !.pc = "answered", !.row = NoFrame]
  /\ answer' = [NoAnswer EXCEPT !.code = code, !.secret = secret]

\* WHERE sender = ... AND sent_at = ..., to the second; the first row found is used, and
\* there is no ORDER BY.
Matches(sender, at) == {i \in 1..Len(secrets) : /\ frame[secrets[i].frame].sender = sender
                                                /\ secrets[i].at = at}

HandleDecrypt_AnyKey(ask) ==
  /\ http.pc \in {"idle", "answered"}
  /\ \E i \in Matches(ask.sender, ask.at) :
       http' = [HttpIdle EXCEPT !.pc = "decrypt", !.ask = ask, !.row = secrets[i].frame]
  /\ answer' = NoAnswer
  /\ UNCHANGED <<deliveryVars, secretsVars>>

\* Up to the comparison of the keys.  404 and 500 are one code here.
HandleDecrypt(ask) ==
  /\ http.pc \in {"idle", "answered"}
  /\ LET asked == [HttpIdle EXCEPT !.pc = "answered", !.ask = ask] IN
       \/ /\ Faults \/ Matches(ask.sender, ask.at) = {}
          /\ http' = [HttpIdle EXCEPT !.pc = "answered"]
          /\ answer' = [NoAnswer EXCEPT !.code = 500]
       \/ \E i \in Matches(ask.sender, ask.at) :
            IF frame[secrets[i].frame].key = ask.key
            THEN /\ http' = [asked EXCEPT !.pc = "decrypt", !.row = secrets[i].frame]
                 /\ answer' = NoAnswer
            ELSE /\ http' = asked
                 /\ answer' = [NoAnswer EXCEPT !.code = 403]
  /\ UNCHANGED <<deliveryVars, secretsVars>>

\* The files.  The result was freed two statements before its row is read for the name of
\* the picture, the AES key and the IV: it still holds them, or what this thread has put
\* there since.  Only this thread reads rows of secret_message, so that is no other secret.
DecryptReads ==
  /\ http.pc = "decrypt"
  /\ \/ StaleReads /\ \E code \in {200, 500} : Decrypts(code, Garbage)
     \/ (~env \/ images[http.row] = "none") /\ Decrypts(500, Garbage)
     \/ env /\ images[http.row] = "whole" /\ Decrypts(200, http.row)
     \/ env /\ images[http.row] = "cut" /\ Decrypts(200, Garbage)
  /\ UNCHANGED <<deliveryVars, secretsVars>>
-----------------------------------------------------------------------------
(* get_chat_history.  Rows of chat_message come ordered by sent_at, a time  *)
(* in seconds; those of the same second come in any order.  The result is  *)
(* stored by the query and rows of chat do not change, so which of these   *)
(* comes first may as well be settled when it is read.                     *)

HandleHistory ==
  /\ http.pc \in {"idle", "answered"}
  /\ \/ /\ Faults
        /\ http' = [HttpIdle EXCEPT !.pc = "answered"]
        /\ answer' = [NoAnswer EXCEPT !.code = 500]
     \/ /\ http' = [HttpIdle EXCEPT !.pc = "history", !.rows = Len(chat),
                                     !.unread = 1..Len(chat)]
        /\ answer' = NoAnswer
  /\ UNCHANGED <<deliveryVars, secretsVars>>

\* A secret row whose text file cannot be opened is left out.
HasEntry(row) == row.text = "image" => row.frame \in texts

\* The rest of the result, from its first row on.
Earliest(rows) == {i \in rows : \A j \in rows : chat[i].at <= chat[j].at}

ReadsRow(i) ==
  /\ answer' = IF HasEntry(chat[i]) THEN [answer EXCEPT !.entries = Append(@, chat[i].frame)]
               ELSE answer
  /\ http' = [http EXCEPT !.unread = @ \ {i}]

HistoryReads_Unordered ==
  /\ http.pc = "history"
  /\ \E i \in http.unread : ReadsRow(i)
  /\ UNCHANGED <<deliveryVars, secretsVars>>

\* The next row of the result, with its text file, is added to the response.
HistoryReads ==
  /\ http.pc = "history"
  /\ \E i \in Earliest(http.unread) : ReadsRow(i)
  /\ UNCHANGED <<deliveryVars, secretsVars>>

HistoryAnswers ==
  /\ http.pc = "history"
  /\ http.unread = {}
  /\ http' = [http EXCEPT !.pc = "answered"]
  /\ answer' = [answer EXCEPT !.code = 200]
  /\ UNCHANGED <<deliveryVars, secretsVars>>
-----------------------------------------------------------------------------
\* The process ends: by a signal, a crash, or one of its calls of exit (RAND_bytes).
ProcessEnds ==
  /\ Crashes
  /\ DeliveryDies
  /\ env' = FALSE
  /\ http' = HttpIdle
  /\ answer' = NoAnswer
  /\ UNCHANGED <<images, texts, secrets>>

Reader ==
  \/ \E ask \in Asks : ask.at <= clock /\ HandleDecrypt(ask)
  \/ DecryptReads \/ HandleHistory \/ HistoryReads \/ HistoryAnswers

Encryption == Embed \/ Encode \/ InsertSecret

WsThread == Encryption \/ ((WsReceives \/ WsExchanges \/ WsSaves \/ WsTells)
                           /\ UNCHANGED <<secretsVars, readerVars>>)

SecretMessagesNext ==
  \/ WsThread \/ Reader \/ ProcessEnds
  \/ /\ (\E f \in Frames : ClientSends(f)) \/ WsStarts \/ ClockTicks
     /\ UNCHANGED <<secretsVars, readerVars>>

\* A step of a thread that can be taken is taken: queries, file operations and the TCP
\* exchange (see CallsReturn in TcpExchange) end.  Nothing makes clients act, or time pass.
SecretMessagesSpec ==
  SecretMessagesInit /\ [][SecretMessagesNext]_vars /\ WF_vars(WsThread)
-----------------------------------------------------------------------------
(* Properties.                                                             *)

HasSecretRow(f, before) ==
  \E j \in 1..Len(secrets) : secrets[j].frame = f /\ secrets[j].at <= before

\* Every secret that the chat lists is there: before its row in chat_message there were its
\* picture, its text file and its row in secret_message, with a time that is not later.
\* Rests on the order of the steps in encryption.c:186-254 and websocket_server.c:47-50,
\* at whichever of them the process dies or a query fails.
ListedSecretsAreComplete ==
  \A i \in 1..Len(chat) : chat[i].text = "image" =>
    /\ images[chat[i].frame] # "none"
    /\ chat[i].frame \in texts
    /\ HasSecretRow(chat[i].frame, chat[i].at)

\* The files and the rows of secret_message agree: a row, which is inserted last, has both
\* of its files, and no secret has two rows; a picture without a row is that of the secret
\* in work, or its client was told of an error, or the process died in between
\* (encryption.c:186-254, whose failures leave the files behind).
FilesMatchRows ==
  /\ \A j \in 1..Len(secrets) :
       /\ images[secrets[j].frame] # "none" /\ secrets[j].frame \in texts
       /\ \A k \in 1..Len(secrets) : secrets[k].frame = secrets[j].frame => k = j
  /\ \A f \in Frames : images[f] # "none" =>
       \/ HasSecretRow(f, clock)
       \/ ws.pc \in {"encode", "insert"} /\ ws.frame = f
       \/ fate[f] = "lost" \/ told[f] = <<"http", "error">>

\* A secret that was stored, but that no chat lists, is about to be listed, or its INSERT
\* failed (as logged, or as its client was told), or the process died in between.
OrphansAreExplained ==
  \A j \in 1..Len(secrets) :
    LET f == secrets[j].frame IN
      \/ Stored(f) \/ f \in unsaved
      \/ ws.pc = "save" /\ ws.frame = f
      \/ fate[f] = "lost" \/ told[f] = <<"http", "error">>

\* Whoever gets a secret has named its sender, its time and its key; whoever is told that
\* the key does not match has named a secret with another one; and what comes back is no
\* other secret, and garbage only if the picture held a part of it or freed memory was
\* used again (decryption.c:36-105), whatever is stored between the query and the files.
DecryptionIsSound ==
  LET ask == http.ask
      named == {secrets[i].frame : i \in Matches(ask.sender, ask.at)}
  IN http.pc = "answered" =>
       /\ answer.code = 200 /\ answer.secret # Garbage =>
            answer.secret \in named /\ frame[answer.secret].key = ask.key /\ env
       /\ answer.code = 200 /\ answer.secret = Garbage /\ ask # NoAsk =>
            StaleReads \/ \E f \in named : frame[f].key = ask.key /\ images[f] = "cut"
       /\ answer.code = 403 => \E f \in named : frame[f].key # ask.key

\* A response holds the entries of these rows of a table, one for each of them, and none
\* before one of an earlier second.
ListsRows(entries, table, rows) ==
  /\ \A i \in rows : \E k \in 1..Len(entries) : entries[k] = table[i].frame
  /\ \A k \in 1..Len(entries) : \E i \in rows : entries[k] = table[i].frame
  /\ \A k, l \in 1..Len(entries) : entries[k] = entries[l] => k = l
  /\ \A k, l \in 1..Len(entries) : \A i, j \in rows :
       k < l /\ entries[k] = table[i].frame /\ entries[l] = table[j].frame =>
         table[i].at <= table[j].at

\* A history holds one entry for every message stored before its query and none for any
\* other, although a missing text file makes the loop skip a row (chat_history.c:103-155)
\* and the WebSocket thread stores messages while the loop reads the files; and none comes
\* before one that was sent in an earlier second (chat_history.c:75).
HistoryIsComplete ==
  http.pc = "answered" /\ answer.code = 200 /\ http.ask = NoAsk =>
    ListsRows(answer.entries, chat, 1..http.rows)

\* Expected to fail: the time that the history shows with a secret is the one by which
\* handle_decrypt_message finds it.
HistoryTimesOpenSecrets ==
  \A i \in 1..Len(chat) : chat[i].text = "image" =>
    \E j \in Matches(frame[chat[i].frame].sender, chat[i].at) : secrets[j].frame = chat[i].frame
=============================================================================
