# A verification development of 007_BE, the secret messenger's back end

007_BE is one C process. It serves HTTP (accounts, friends, chat rooms, history, decryption,
a timer), WebSocket (messages) and a small TCP service, and keeps everything but the SSH
sessions in MySQL. This directory holds TLA+ modules that model it, configurations that
check them with TLC, and proofs that TLAPS checks. Paths below are relative to the
repository, so `auth.c` is `src/core/auth.c`.

## 1. The system

### Threads

| thread | code | what it does |
|---|---|---|
| main | `main.c` | sets the signal handlers, truncates `active_user`, starts three threads, joins them for ever (`main.c:68-76` is never reached) |
| HTTP | `http_server.c`, `auth.c`, `friend.c`, `chat_room.c`, `chat_history.c`, `decryption.c`, `self_destruct.c` | one mongoose loop: one handler at a time, from its first line to its return, on a MySQL connection that the handler opens and closes |
| WebSocket | `websocket_server.c`, `chat_room.c`, `encryption.c`, `socket_client.c` | one mongoose loop: one message at a time, on one MySQL connection opened at the start of the thread and never again |
| TCP server | `socket_server.c` | accepts; one detached thread per connection reads once and answers `Processed` |
| timer | `self_destruct.c` | one detached thread per `/chat/boom`: sleeps ten seconds, then answers on the HTTP thread's connection |
| any of them | `main.c:12-26` | the signal handler: connects, truncates `active_user`, `exit(0)` |

### Components, state, operations

| component | state | operations | what makes it correct |
|---|---|---|---|
| HTTP thread | the handler under way, its connection, its answers | one per URI | every return path closes the connection and answers once |
| accounts (`auth.c`, `session.c`, `active_user.c`, `ssh_connection.c`) | table `active_sessions` in memory, tables `user` and `active_user` | login, logout | the three follow one another: active users have a session and an account; a logout ends the session |
| process life (`main.c`) | which threads run, where the signal handler stands | boot, signal, exit, crash | the process ends after a signal, and leaves nobody active |
| friends (`friend.c`) | table `friend` | request, accept, reject, three lists | one row for a pair, earned by a request and its acceptance; the lists list what they are named for |
| chat rooms (`chat_room.c`) | table `chat_room` | create-or-get (from two threads), `/chat/start`, list | one room for a pair, with a stable id, for friends only |
| chat history (`chat_history.c`) | none; reads `chat_message` and text files | history | the right room; every message stored before the query, by its time |
| WebSocket server | the global connection, the message under way | message | a row in the room of its sender, and an answer that agrees with it (the row of a plain message holds the reply of the TCP server, `websocket_server.c:65`) |
| TCP server and client | a socket and a thread per message | request, reply | every request is answered, the message thread comes back |
| secret messages (`encryption.c`, `decryption.c`, `steganography.c`) | table `secret_message`, image and text files | encrypt, decrypt | what was hidden comes back, under the key of the message that was asked |
| timer (`self_destruct.c`) | a thread and a captured connection | boom | the one who asked gets the answer |
| `aes.c`, `base64.c` | none | codecs | round trips |

### What is hard

The handlers look sequential, but a handler is a series of autocommitted queries without a
transaction. Between two of them come the WebSocket thread, the signal handler, a lost
connection, and the death of the process. A frame of the WebSocket goes through a socket of
its own process, two files, and two rows inserted over two connections. Two threads run
`create_or_get_chat_room` on the same
tables. MySQL outlives the process and the sessions do not. Most failed queries are only
logged and the handler goes on. `PROJECT.json` lists the hazards, each at its line.

## 2. The modules

```
HttpServer ----+---- Accounts
               +---- Friends ---- ChatRooms ---- MCChatRooms
                        :             :
                        : implements  : implements
                     Friendship     Rooms

Delivery ---- SecretMessages ....implements.... Mailbox

TcpExchange          Timer          Steganography
```

- **HttpServer**: what all handlers share. `http` is a program counter with two user
  arguments, `db` the handler's MySQL connection, `answer` the status codes it has sent.
  `Serve` is a handler that is done after one query at most, `Enter`, `Continue` and
  `Return` are the steps of a longer one: one action for each query after the first, and all
  the work up to the next query belongs to the action. A failed `db_connect`, a missing
  field and a failed first query are `Refuse`.
- **Accounts**: `auth.c`, `session.c`, `active_user.c`, `main.c`. `slots` is
  `active_sessions`, `proc` and `sig` the process and its signal handler. Login is
  `HandleLogin`, `LoginSsh`, `LoginUser`, `LoginActive`; logout `HandleLogout`,
  `LogoutActive`. `stale` and `unsaved` are history variables: what ignored failures left
  behind, so that the invariants can say "except for these" and nothing wider.
- **Friends**: `friend.c`. The table is a bag of rows, since nothing in the repository
  promises a unique key. `handle_friend_request` has four queries and four actions. `met` is
  a history variable: pairs that an acceptance has made friends.
- **Friendship**: the abstract relation that `friend.c` promises: ask, accept, part.
- **ChatRooms**: extends Friends with `chat_room`, `chat_message` and the WebSocket
  thread. `HandleChatHistory` is the query for the room and `GetChatHistory` that for its
  messages. `CreateRoom` is the upsert of `create_or_get_chat_room`, used by `ChatInsert` (HTTP)
  and `WsInsert` (WebSocket). `WsMessage`, `WsInsert`, `WsSave` are the queries of
  `process_message`; the TCP exchange, and for a secret message the encryption, lie between the
  last two and either yield something to save or do not.
- **Rooms**: the abstract service that two users see, without ids, queries or threads: who has
  met may get a room, once and for good, and writes there and nowhere else. `Talk` in ChatRooms
  maps the tables to it: a pair is taken for the set of its two people, an id for its pair.
- **Delivery**: `websocket_server.c`, one frame at a time. `fate`, `inbox` and `told` say
  where a frame is and what its client was sent, `chat` is the table `chat_message`, `wsdb` the
  one global connection. `WsReceives` is `process_message` up to the room (the queries for it are
  in ChatRooms), `WsExchanges` is `send_tcp_request` and what either branch does with its result,
  `WsSaves` is `save_message`, `WsTells` the answer. `unsaved` is a history variable: frames whose
  INSERT failed, which is only logged.
- **SecretMessages**: extends Delivery with `encryption.c` (`Embed`, `Encode`,
  `InsertSecret`), `decryption.c` (`HandleDecrypt`, `DecryptReads`) and the loop of
  `chat_history.c` (`HandleHistory`, `HistoryReads`, `HistoryAnswers`). `images` and `texts` are
  the two files of a frame, `secrets` the table `secret_message`, `env` the environment variable
  that only an encryption sets. `HistoryReads` takes any of the rows with the earliest time that
  are left (`Earliest`): the query orders by `sent_at` alone. The readers run on the HTTP thread,
  between any two steps of the
  writer; `ProcessEnds` ends both, and the tables and files stay.
- **Mailbox**: the abstract service: frames are taken up in order, one at a time, kept at
  most once, and nobody is told of an error about a frame that was kept.
- **TcpExchange**: `socket_client.c` and `socket_server.c`, one action per system call. `fds`
  is the table of descriptors that both ends share, with numbers that are used again at
  once, `conn` and `queue` are the kernel's connections and backlog, `acceptor`, `threads` and
  `client` the three kinds of thread. `AcceptFails` is the failing accept that leaves the connection
  where it is. Outsiders may connect, send, close, or do nothing.
- **Timer**: `self_destruct.c`. `conns` says whose connection is at an address, `timers`
  what the sleeping threads remember.
- **Steganography**: `steganography.c`, one action per byte of the picture. A byte of the
  message is a function from bits to 0 and 1, a byte of the picture a number; the message lies in a
  memory in which the terminator may be before or behind the end of the ciphertext. How long the
  ciphertext is plays no part in the two loops; it is a bound variable of the properties, up to
  `MaxLen`, the size of both buffers (`encryption.c:79`, `decryption.c:91`).
- **FriendsProofs, AccountsProofs, ChatRoomsProofs, HttpServerProofs, TcpExchangeProofs,
  SecretMessagesProofs, MailboxProofs, SteganographyProofs**: the proofs.

Delivery stands for the two modules it leaves out by what they promise: that the exchange
comes back with a reply or without (`CallsReturn` of TcpExchange), and that a message has a
room or is refused (`OneRoomPerPair` and `MessagesInOwnRoom` of ChatRooms). SecretMessages takes
from Steganography that a picture holds the whole ciphertext unless that has a zero byte in it,
fills its buffer, or is too long for the picture (`RecoversMessage`,
`ReconstructedUnlessZeroOrFull`), and leaves open of which secrets this is so.

Names are numbers, in the order `strcmp` gives them; 0 is `NULL`. A definition whose name
ends in `_Something` is a variant of the action after it, with a plausible bug; the list
`mutants` in `PROJECT.json` says which property each one breaks.

### What is taken for granted about code outside the repository

- The schema is not in the repository. `chat_room` is taken to have a unique key over
  `(user1, user2)`, because `ON DUPLICATE KEY UPDATE` (`chat_room.c:51-55`) is meaningless
  without one; `user` and `active_user` to have one over `username` for the same reason
  (`auth.c:46`, `active_user.c:8`). `friend` is taken to have none.
- One query is atomic (autocommit). A query fails without effect, or takes effect and its
  reply is lost, which the code cannot tell apart (`OrFault`); for the WebSocket thread's
  INSERT into `chat_room` both are modelled, too.
- A connection that is lost stays lost: `MYSQL_OPT_RECONNECT` is never set.
- `mysql_store_result` on a connection fails only when the connection is lost. The code checks
  none of the three results of `friend.c:38-91`; a null result counts as empty, as the
  client library treats it.
- mongoose runs one handler at a time to its end, and `ssh_connection` returns a session or
  does not. `malloc` and `strdup` do not fail. Requests carry the names of users; bodies that
  lack a field are refused by each handler (`Refuse`).
- `chat_message.sent_at`, which no INSERT names, is taken to default to the time of the INSERT, in
  seconds. Rows come back from `ORDER BY sent_at` by that time, and those of the same second in any
  order.
- mongoose hands frames over in the order in which they came. It ignores `SIGPIPE`, so that a
  send to a closed socket is an error and not the end of the process.
- A descriptor has the lowest free number; a connection that nobody accepts stays in the
  backlog; a `recv` returns some of the bytes that were sent, never others.
- Encryption and decryption with the same key, IV and whole ciphertext are inverse to one another
  (`aes.c`, `base64.c` over OpenSSL). A plaintext has at most 127 characters, so that its
  ciphertext of at most 128 bytes fits into `aes_message`; what happens to a longer one is in
  section 6. Every secret frame makes files of its own, since their names hold a UUID.
- Memory that was freed may hold its old contents. What else it may hold is limited: the row that
  `decryption.c:80` uses may have been written over by something this thread has put there, which
  gives garbage or an error (`StaleReads`) and no row of another secret, since only this thread reads
  `secret_message`; a connection's memory (`TimerFires`) may be that of another connection.
- A text file that was written can be opened (`HistoryReads`), and the picture too
  (`DecryptReads`), in a process that knows their directory.

## 3. The runs

| run | instance | distinct states | what it shows |
|---|---|---|---|
| `accounts` | 2 users, 2 session slots, faults | 54,972 | sessions, `active_user` and `user` follow one another up to ignored failures; requests end; a signal ends the process |
| `friends` | 2 users, faults | 15,813 | one row per pair, earned; the table implements `Friendship` |
| `chatrooms` | 2 users, 3 couples (one of a user with himself), faults | about 248,000 | one room per pair with a stable id under two threads; messages in the right room; the tables implement `Rooms` |
| `tcp` | 2 descriptors, 2 connections, backlog 1, faults | 10,614 | one owner per descriptor, earned replies, nobody forgotten, exchanges that end although descriptors run out again and again |
| `secrets` | 2 frames of any content, 1 sender, 2 keys, 2 seconds, faults, crashes, stale reads | 301,224 | answers, files and both tables agree, row by row and file by file; histories are complete; the mailbox is implemented; frames end |
| `stego` | bytes of 2 bits, 2 carriers, pictures of 0 to 9 bytes, 4 bytes of memory, a buffer of 3 | 1,116,672 | both loops are inverse to one another and stay inside; when exactly a ciphertext comes back |
| `friends_active_list` | 3 users | violation | the active list holds strangers |
| `accounts_shutdown` | 1 user, 1 slot, no fault | violation | a login overtakes the TRUNCATE of the signal handler |
| `accounts_logout` | 1 user, 2 slots, no fault | violation | a session survives the logout |
| `secrets_history` | 1 frame, 2 seconds, no fault, no crash | violation | the time in the history does not find the secret |
| `timer` | 2 clients, 1 address | violation | a timer answers a client that never asked |
| `stego_zero` | 1 carrier, a ciphertext of 2 bytes | violation | a zero byte cuts a ciphertext shorter than its buffer |

**Bounds.** Nothing counts up without bound: the session table has `MaxSessions` slots, a
row of `friend` is inserted for a pair without one, ids of rooms go up to the number of
couples. Two users have every kind of pair (each direction, oneself); a third is needed only
where a query confuses the caller with somebody else, and that run has three. Two slots are
the fewest in which a table holds a double login or is full for one user and not for the
other. `Couples` names who asks for whom in `ChatRooms`: it bounds the handlers' arguments, the
tables keep all pairs. In the violation runs faults are off, so that a failure is not to
blame. Two frames are the fewest in which one overtakes, orphans or is mistaken for another, one
sender with two keys the fewest in which two secrets of the same second differ in what opens
them, and `MaxTime` two seconds the fewest in which a clock ticks between two INSERTs and in which
two rows may have the same second or not. Two descriptors and two connections let both descriptors
be taken, by the socket of the client and the connection of an outsider, while a connection waits in
the backlog, so that accept fails in front of it; `Backlog` one lets that be full.
In Steganography the memory holds a
terminator before, at and behind the end of the ciphertext, which has any length from one byte to
the three of the buffer, the pictures range from none to more than the longest string needs
(`MaxSize`), and the string may have room in the buffer or not; carriers with both lowest bits show
that a 0 clears and a 1 sets. The proofs then hold
for every value of these. Deadlock is checked wherever the system runs on: a picture that was
read back (`stego`, `stego_zero`) and clients that have all asked (`timer`) are ends.

**Properties.** A type invariant is in each passing run. `HandlersAreClean` (every return path
closes its connection and answers, but for the two answers of a logout without a session) is in
`accounts`, `friends` and `chatrooms`; it says something of the handlers with more than one query,
since one that is served in a single step never holds a connection between two steps. The others,
with the hazard they are for:

- `ActiveHasSession`, `ActiveRegistered`: partial failures of a login or logout, the full table,
  the TRUNCATE of the signal handler or of the next start in between.
- `RequestEnds`, `ShutdownEnds`: a signal on the thread of a handler stops that handler for good.
- `OneRowPerPair`, `ImplementsFriendship`: check and INSERT are two queries, and the check's
  result is not checked; what saves the table is that there is one HTTP thread and that
  a connection lost at the check cannot insert. The mutant `RequestInsert_Reconnects` shows
  that turning on reconnection would break it.
- `RowsHaveAccounts`, `FriendsHaveMet`: a row needs two checks and an acceptance before it. No code
  deletes an account, so a check cannot become outdated; what could go wrong is a path around it.
- `OneRoomPerPair`, `RoomIdsAreStable`: two threads create the same room.
- `MessagesInOwnRoom`: the room id is read before the TCP exchange and used after it.
- `RoomsForAcquaintances`, `ChatStartIsUpToDate`: the check may be outdated at the INSERT. The
  second holds for the HTTP thread alone; for the WebSocket thread, whose check a handler can
  overtake, only the first does.
- `ImplementsRooms`: what the invariants of rooms and messages say of states, said of steps: the
  check of one query, the INSERT of the next and the id in the other thread's hand amount to
  "open a room" and "write in it", whatever comes between them.
- `DescriptorsAreOwned`: close on eight paths, by three kinds of thread over one table; a second
  close would hit somebody else's connection, a missing one would end the service. The mutant
  `ThreadStarts_SharedSock` shows what the memory of its own is for that `start_tcp_server`
  gives each thread.
- `RepliesAreEarned`: a reply is on a connection only after a read from that one.
- `NobodyIsForgotten`: neither `recv` has a timeout, so whoever waits must have somebody who has
  the connection in hand: the acceptor in front of the backlog, or a thread that does not come to
  its close without an answer. The mutant `StartThread_Leaks` drops the connection when no thread
  can be made.
- `ServedAndClosed`, `CallsReturn`: neither side has a timeout. A call returns if again and again
  some descriptor is free, however often accept fails in between; it hangs only if from some moment
  on none ever is. (The mutant `AcceptFails_Stops` gives up at the first failure.) A connection is
  closed unless its client does nothing for ever. The descriptors are those of the TCP
  service and its clients: that the rest of the process takes one before each retry of accept, for
  ever, is not modelled. Messages are whole, so a split stream is not either.
- `AnswersMatchStore`: what a client is told agrees with the table, on each path of
  `process_message`, including those on which a failure is only logged. That the text stored for a
  plain message is the reply of the TCP server, and not the message
  (`websocket_server.c:65`), is modelled as it is, and no comment says otherwise.
- `ListedSecretsAreComplete`, `OrphansAreExplained`: two files and two rows on two connections
  without a transaction, and a process that may die after each.
- `FilesMatchRows`: the other half of that: a row has its two files and is the only one of its
  secret, and a picture without a row is in work, or its client was told of an error, or the
  process died. The mutant `InsertSecret_Retries` asks twice when a reply is lost.
- `DecryptionIsSound`: two secrets of one second, and a secret that is stored while another is read:
  the one that is opened is one whose key was named. A restart without the environment variable and
  a row used after it was freed are modelled, and admitted as errors or garbage. The
  run has `StaleReads`, under which garbage is always admitted; the theorem holds for
  both values, and without `StaleReads` garbage means that the picture held only a part.
- `HistoryIsComplete`: rows are skipped when a text file is missing, which never happens to a
  listed secret, and the WebSocket thread stores messages while the loop reads the files; the
  response has every message from before its query, no other, and none before one of
  an earlier second. The mutant `HistoryReads_Unordered` drops the `ORDER BY`, and `Embed_TextLater`
  writes the text file after the rows.
- `ImplementsMailbox`, `FramesEnd`: order, at most once, and an end for each frame that has
  reached the server, although one thread serves all.
- `ReconstructedUnlessZeroOrFull`: the exact condition under which the comment of
  `steganography.c:76` is true, for every ciphertext that fits into the buffer. It fails for one
  with a
  zero byte before another byte (`stego_zero` shows that), and for one that fills the buffer: a
  message of 112 to 127 characters gives 128 bytes (`encryption.c:106`), the extraction ends at index
  127 of its 128 bytes (`steganography.c:77`), and the last byte is lost.
- `RecoversMessage`, `StaysInside`, `PictureIsKept`: two loops with separate counters, three
  reasons to stop, and a string that may be longer than what it was made of. `StaysInside` says that
  the extraction never leaves `hidden_message` and leaves it terminated, and that the embedding reads
  nothing behind the terminator that `strlen` found; where that is, in `aes_message` or behind it, is
  not bounded by anything.

**Fairness.** `Accounts` assumes weak fairness of the steps of a handler that has
begun (a query or an SSH login ends, in success or failure) and of the two steps of the signal
handler. Nothing makes requests, signals or crashes come. `RequestEnds` does not hold for the
handler alone: a signal on the HTTP thread stops it, and the request then ends only because
the signal handler exits. The sockets and the locks of the C library are not modelled, so
neither is a hang in `mysql_real_connect` or in a `printf` of the signal handler
(hazard at `main.c:14`). `SecretMessages` assumes weak fairness of the WebSocket thread: a step of
it that can be taken is taken, since queries and file operations end, and the TCP exchange does by
`CallsReturn`, unless descriptors never become free again. `TcpExchange` assumes weak
fairness of the client, of accept, of the thread's creation and of each detached thread, by
descriptor; nothing makes an outsider send or close, nothing makes calls come, and nothing
makes the server listen. Both properties hold although the process may die at any time.

## 4. Disagreements found

- **`/friend/active_list`** (`friend.c:273-279`) selects active users who are anybody's
  friends; `http_server.c:43` and `friend.c:272` call them the active friends.
  (`FriendsActiveList.cfg`: two of three users are friends, and the third gets one of them.)
- **Shutdown** (`main.c:18`): "cleaned up successfully during shutdown" is printed, and then
  a login that was under way inserts its row. (`AccountsShutdown.cfg`) The next start
  truncates the table again; until then other readers of it see the user.
- **Logout** (`session.c:61`): after two logins, `Logout successful.` leaves a session.
  (`AccountsLogout.cfg`)
- **Decryption by the time of the history** (`encryption.c:237`): the two rows of a secret get
  their times from two statements; when the second changes in between, `/chat/decrypt` does
  not find what `/chat/history` lists. (`SecretsHistory.cfg`, without any failure.)
- **Timer** (`self_destruct.c:46`): "answers the client", but the connection may have been freed
  and given to another client in the ten seconds. (`Timer.cfg`)
- **strlen of a ciphertext** (`steganography.c:34`): "reconstruct the message" fails for a
  ciphertext that holds a zero byte, and what is decrypted has zeros instead of the rest.
  (`SteganographyZero.cfg`)

Behaviour that no comment contradicts, and that is modelled as it is: a logout without a session
answers 404 and then 200; the session dropped when the table is full is still answered with
200; a user may befriend himself; after a failed INSERT into `user` the login goes on; when
the query for a room fails, the history is answered 404; a secret frame that fails in
`encryption.c` is answered in HTTP on a WebSocket connection, and then with an error; a secret
frame that succeeds is not answered; a picture that is too short for its message is no error.

## 5. What is proved

All proofs are for every set of users (natural numbers above 0), with faults or without, and
in `Accounts` for every size of the session table; for every number of descriptors,
connections and places in the backlog; every set of frames, senders and keys and every bound of
the clock; every width of a byte, set of carriers and length of pictures, memory and buffer, and
ciphertexts of every length that fits into the buffer. The
assumptions are those that the modules
state about their constants, and no other.

- **`FriendsProofs`.** `FriendsInv` adds to the properties what `handle_friend_request` still
  knows at each query (`RequestKnows`): who has an account, and, before the INSERT on a
  connection that is still open, that there is no row for the pair. `OneRowPerPair` is not
  inductive without the last one: it is the code's argument that the check is enough. `StepCases`
  reduces
  a step to four kinds of change of the table; each invariant then has one proof per kind.
  `FriendsImplementFriendship` maps each of these to a step of `Friendship` or a stutter.
- **`AccountsProofs`.** `AccountsInv` says what a login has done before each of its queries
  (`LoginKnows`): from `ssh_connection` on, its user has a session or was dropped from a full
  table; from the INSERT on, an account or a logged failure. Without it `ActiveHasSession`
  and `ActiveRegistered` are not inductive, since `LoginActive` relies on what two earlier
  actions did. `ClearKeeps` treats the three TRUNCATEs, that may fall between any two.
  `WhatStartsGoesOn` is the safety core of `RequestEnds` and `ShutdownEnds`: a handler under way can
  run or is interrupted by a signal handler that is under way itself, and two numbers,
  `HandlerLeft` and `SignalLeft`, fall with each step of the two.
- **`ChatRoomsProofs`.** `ChatRoomsInv` extends `FriendsInv`: ids come from the counter and
  belong to sorted pairs (`RoomsKept`), the HTTP thread's check is still valid at its INSERT
  (`ChatInsertKnows`), the WebSocket thread knows only that the two have met (`WsKnows`), and
  after its INSERT it holds the id of the pair's room. Each action keeps it and lets `rooms`
  only grow, which also gives the two action properties. Two refinements follow.
  `ChatRoomsImplementFriendship`: every step of the composition is one of Friends or leaves the
  relation alone, so it implements `Friendship`, and `ChatRoomsKeepFriends` carries over what was
  proved of Friends. `ChatRoomsImplementRooms`: an id stands for one pair (`RoomsKept`) and a sorted
  pair for one set of people, so an upsert is `Open` or a stutter, and `WsSave` is `Post` or
  a stutter; that a room is opened for people who have met is where `ChatInsertKnows` and `WsKnows`
  are needed, and both are facts about an earlier query.
- **`HttpServerProofs`**: types of the common steps.
- **`TcpExchangeProofs`.** `IInv` adds that a descriptor is an open end of a connection and no
  other descriptor is the same end (`Linked`), that a thread at work has a connection
  (`Holding`), that the backlog holds unaccepted connections once each (`Queued`), and what a
  thread about to answer has read (`Earned`). Ownership is not inductive without `Queued`: two
  entries for one connection would give it two descriptors. `NobodyIsEverForgotten` needs a second
  invariant on top of it, `Attended`: the server listens as long as something waits
  (`Listening`, `InBacklog`), an accepted connection has a holder (`HasServer`), and a thread at
  its close has answered (`Answered`). It is the safety core of `ServedAndClosed` and
  `CallsReturn`: at each moment somebody can act, and fairness does the rest.
- **`SecretMessagesProofs`.** `IInv` says what the WebSocket thread has made at each step
  (`Working`, `Making`), that frames that wait have left no trace (`Waiting`), and what the HTTP
  thread holds (`Opened`, `Reading`). Tables only grow and files are only made, which keeps
  what the readers have read true; each action has one step for each part it can disturb.
  `HistoriesAreComplete` has an invariant of its own: what the response holds are the rows that
  were read, once each (`Collected`), and none of those has a later time than one that is still
  unread, because the loop takes an earliest one. `FilesMatchTheRows` is proved from `IInv` and from
  what a step keeps of frames that have ended
  (`EndingStays`, `FilesStay`): a picture that an encryption leaves behind has its explanation from
  then on. `EveryStepIsProgress` is the safety core of `FramesEnd`: `WorkLeft`, a number
  made of the frames that wait and the steps that the thread has before it, falls with every step
  of the thread, and only a client adds to it. Since no step of the thread leaves it where
  it was, weak fairness of the thread gives the rest.
- **`MailboxProofs`** maps each action to a step of `Mailbox` or a stutter; that a frame is
  kept at most once, and never after an error, is where `IInv` is needed.
- **`SteganographyProofs`.** `IInv` ties the counters together: the loops stand at bit
  `message_index * Width + bit_index`, which is the byte of the picture they have reached; what is
  written so far has the bits of the message so far, and what is collected has those of the
  copy. `MessageComesThrough` is then arithmetic on positions: `ComesThrough` holds exactly for
  those that the loop has visited. `CiphertextIsReconstructed` draws from it when the whole
  ciphertext does, for every picture that is large enough (`PictureIsLargeEnough`) and every
  ciphertext up to the size of the buffer.

Only model-checked: `RequestEnds`, `ShutdownEnds`, `ServedAndClosed`, `CallsReturn` and
`FramesEnd` (liveness under fairness is out of the prover's reach; the state and step
properties that they rest on are proved as `WhatStartsGoesOn`, `NobodyIsEverForgotten` and
`EveryStepIsProgress`; the step from there by fairness is not), and that the six violation runs
violate. Nothing that is proved is by induction over data or about a recursive operator: no
module has one.

## 6. Not modelled

- **AES and Base64** (`aes.c`, `base64.c`): codecs over bytes that OpenSSL computes, without
  state. `aes.c` reports no failure to its callers; the model takes the pair to be inverse for
  the right key and the whole ciphertext. `encode_file_to_base64`, which cuts a file at a bound, is
  the action `Encode`; the bound is data there.
- **Libraries**: mongoose, libssh, OpenSSL, the MySQL client and the C library, modelled by
  what the code sees of them. So neither are their locks: a signal handler that interrupts one of
  them may hang (`main.c:14`), and a timer thread that writes to a connection while mongoose does
  may do worse than lose its answer (`self_destruct.c:46`).
- **Texts**: the wording of answers and log lines, CORS headers, the texts of the lists and
  what becomes of them in buffers of 2048 bytes (`friend.c:241-250`), quoting in JSON and SQL.
- **Writing outside of memory**: more than 100 pictures (`encryption.c:54`), a message of 128
  characters or more, whose ciphertext is written behind `aes_message[128]` (`encryption.c:106`), and
  a history of more than 3 000 000 bytes (`chat_history.c:150`). The model says nothing of
  executions in which they happen.
- **Lengths of texts**: the text of a picture may have 600 000 characters (`base64.c:9`), and an
  entry of the history is cut at 500 000 (`chat_history.c:146-149`). In the model an entry
  is there or not.
- **A full disk, a failing `malloc`**: results of `fwrite` and `fprintf` are not looked at, and a
  file is taken to be written once it was opened; so is a picture to have its header of 54 bytes.
  A failing `malloc` and `pthread_create` are modelled where the code closes or answers for
  them (`StartThread`, `HandleTimer`), and nowhere else.
- **A second signal** during the first, and `main.c:68-76`, which is never reached.
- **Detail that was merged**: the status codes 404 and 500 of a decryption are one value, and so
  are the texts of errors.
- **One composition of everything**: the modules meet at the interfaces named in section 2 and
  are checked on their own; together they are beyond a model checker.
