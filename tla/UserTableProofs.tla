--------------------------- MODULE UserTableProofs ---------------------------
(***************************************************************************)
(* Proofs about UserTable, for any number of clients, names and            *)
(* descriptors and anything the clients may type.                          *)
(***************************************************************************)
EXTENDS UserTable, FiniteSetTheorems, TLAPS

(***************************************************************************)
(* The inductive invariant.  The tables stay right because the scan and    *)
(* the line being executed only ever touch users that are in them.         *)
(***************************************************************************)
ScanInv ==
  status = "up" =>
    /\ pc \in {"scan", "exec"} => rfds \subseteq afds
    /\ pc = "exec" => who \in Users
    /\ pipefds \subseteq open

TableInv == TypeOK /\ WatchedFds /\ IdsPartitioned /\ NamesAgree /\ QueueIsTheDead /\ ScanInv

-----------------------------------------------------------------------------
(* Users.                                                                  *)

\* While the server is up, a user is known by its descriptor and by its id.
LEMMA UserFacts ==
  ASSUME TableInv, status = "up", NEW c \in Users
  PROVE  /\ c \in Conn /\ c # Nobody
         /\ shell[c].ufd \in Fd /\ shell[c].ufd # Msock
         /\ fd2usershell[shell[c].ufd] = c
         /\ shell[c].uid \in 1 .. Len(id2usershell)
         /\ id2usershell[shell[c].uid] = c
         /\ \A fd \in Fd : fd2usershell[fd] = c => fd = shell[c].ufd
         /\ \A i \in 1 .. Len(id2usershell) : id2usershell[i] = c => i = shell[c].uid
<1>1. c \in Conn /\ c # Nobody
  BY NobodyAssumption DEF Users
<1>2. TypeOK /\ WatchedFds /\ IdsPartitioned
  BY DEF TableInv
<1>3. shell[c].ufd \in Fd
  BY <1>1, <1>2 DEF TypeOK
<1>4. /\ shell[c].ufd # Msock
      /\ fd2usershell[shell[c].ufd] = c
      /\ \A fd \in Fd : fd2usershell[fd] = c => fd = shell[c].ufd
  BY <1>1, <1>2 DEF WatchedFds
<1>5. /\ shell[c].uid \in 1 .. Len(id2usershell)
      /\ id2usershell[shell[c].uid] = c
      /\ \A i \in 1 .. Len(id2usershell) : id2usershell[i] = c => i = shell[c].uid
  BY <1>1, <1>2 DEF IdsPartitioned
<1> QED
  BY <1>1, <1>3, <1>4, <1>5

\* The number of users is a natural number.
LEMMA UsersFinite == IsFiniteSet(Users) /\ Cardinality(Users) \in Nat
<1>1. Users \subseteq Conn
  BY DEF Users
<1> QED
  BY <1>1, ConnAssumption, FS_Subset, FS_CardinalityType

\* The queue's head is a user, and so is everyone else in it.
LEMMA HeadFacts ==
  ASSUME TableInv, status = "up", garbage_shells # <<>>
  PROVE  /\ c0 \in Users /\ garbage_shells[1] = c0
         /\ Len(garbage_shells) \in Nat \ {0}
         /\ Tail(garbage_shells) \in Seq(Conn)
         /\ Len(Tail(garbage_shells)) = Len(garbage_shells) - 1
         /\ \A i \in 1 .. Len(garbage_shells) - 1 : Tail(garbage_shells)[i] = garbage_shells[i + 1]
<1>1. garbage_shells \in Seq(Conn)
  BY DEF TableInv, TypeOK
<1>2. /\ Len(garbage_shells) \in Nat \ {0}
      /\ garbage_shells[1] = c0
      /\ Tail(garbage_shells) \in Seq(Conn)
      /\ Len(Tail(garbage_shells)) = Len(garbage_shells) - 1
      /\ \A i \in 1 .. Len(garbage_shells) - 1 : Tail(garbage_shells)[i] = garbage_shells[i + 1]
  BY <1>1 DEF c0
<1>3. c0 \in Users
  BY <1>2 DEF TableInv, QueueIsTheDead
<1> QED
  BY <1>2, <1>3

-----------------------------------------------------------------------------
(* How the set of users changes.                                           *)

\* Clearing a shell that nobody else holds takes one user out of the tables.
LEMMA UsersAfterClear ==
  ASSUME TableInv, status = "up", garbage_shells # <<>>,
         fd2usershell' = FreeFd
  PROVE  Users' = Users \ {c0}
<1>1. c0 \in Users /\ fd0 = shell[c0].ufd /\ fd0 \in Fd
  BY HeadFacts, UserFacts DEF fd0
<1>2. \A fd \in Fd : fd2usershell[fd] = c0 <=> fd = fd0
  BY <1>1, UserFacts
<1>3. \A fd \in Fd : fd2usershell'[fd] = IF fd = fd0 THEN Nobody ELSE fd2usershell[fd]
  BY <1>1 DEF TableInv, TypeOK, FreeFd
<1>4. Nobody \notin Conn
  BY NobodyAssumption
<1> QED
  BY <1>1, <1>2, <1>3, <1>4 DEF Users

\* What Accept knows of the descriptor and the id it takes.
LEMMA AcceptFacts ==
  ASSUME TableInv, status = "up", NEW fd \in Fd, Lowest(fd), NEW uid, CreateId(uid)
  PROVE  /\ fd \notin open /\ fd \notin afds /\ fd # Msock
         /\ fd2usershell[fd] = Nobody
         /\ uid \in 1 .. Len(id2usershell) + 1
         /\ uid # Len(id2usershell) + 1 => available_ids[uid] = 1 /\ id2usershell[uid] = Nobody
         /\ \A i \in 1 .. uid - 1 : i \in 1 .. Len(id2usershell) /\ id2usershell[i] # Nobody
         /\ ~Occupied(uid, fd)
<1>0. TypeOK /\ WatchedFds /\ IdsPartitioned
  BY DEF TableInv
<1>1. fd \notin open
  BY DEF Lowest
<1>2. fd \notin afds /\ fd # Msock
  BY <1>0, <1>1 DEF WatchedFds
<1>3. fd2usershell[fd] = Nobody
  <2>1. SUFFICES ASSUME fd2usershell[fd] # Nobody PROVE FALSE
    OBVIOUS
  <2>2. fd2usershell[fd] \in Users /\ shell[fd2usershell[fd]].ufd = fd
    BY <1>0, <2>1 DEF TypeOK, WatchedFds, Users
  <2> QED
    BY <1>0, <1>2, <2>2 DEF WatchedFds
<1>4. /\ uid \in 1 .. Len(id2usershell) + 1
      /\ uid # Len(id2usershell) + 1 => uid \in 1 .. Len(available_ids) /\ available_ids[uid] > 0
  BY <1>0 DEF CreateId, TypeOK, IdsPartitioned
<1>5. uid # Len(id2usershell) + 1 => available_ids[uid] = 1 /\ id2usershell[uid] = Nobody
  BY <1>0, <1>4 DEF IdsPartitioned
<1>6. ASSUME NEW i \in 1 .. uid - 1 PROVE i \in 1 .. Len(id2usershell) /\ id2usershell[i] # Nobody
  <2> DEFINE n == Len(id2usershell)
  <2>1. n \in Nat /\ Len(available_ids) = n /\ i \in 1 .. n
    BY <1>0, <1>4 DEF TypeOK, IdsPartitioned
  <2>2. ~(available_ids[i] > 0)
    BY <1>4, <2>1 DEF CreateId
  <2> QED
    BY <1>0, <2>1, <2>2 DEF IdsPartitioned
<1> QED
  BY <1>0, <1>1, <1>2, <1>3, <1>4, <1>5, <1>6 DEF Occupied, TypeOK

\* A client that is accepted joins the users.
LEMMA UsersAfterAccept ==
  ASSUME TypeOK, NEW c \in Conn, NEW fd \in Fd, fd2usershell[fd] = Nobody,
         fd2usershell' = [fd2usershell EXCEPT ![fd] = c]
  PROVE  Users' = Users \cup {c}
<1>1. \A g \in Fd : fd2usershell'[g] = IF g = fd THEN c ELSE fd2usershell[g]
  BY DEF TypeOK
<1>2. Nobody \notin Conn
  BY NobodyAssumption
<1> QED
  BY <1>1, <1>2 DEF Users

-----------------------------------------------------------------------------
(* Types.                                                                  *)

\* The steps of the clients and of the network.
LEMMA ClientType ==
  ASSUME TypeOK, NEW c \in Conn, ClientStep(c)
  PROVE  TypeOK'
<1>1. CASE Connect(c) \/ Close(c) \/ Reset(c)
  BY <1>1 DEF Connect, Close, Reset, network, tables, loop, TypeOK
<1>2. CASE Type(c)
  BY <1>2 DEF Type, network, tables, loop, TypeOK
<1> QED
  BY <1>1, <1>2 DEF ClientStep

\* A message changes the status to one of its values.
LEMMA SendType ==
  ASSUME NEW s, SendTo(s)
  PROVE  status' \in {"up", "sigpipe"}
BY DEF SendTo

\* An element of a sequence is replaced.
LEMMA ExceptSeq ==
  ASSUME NEW S, NEW v \in Seq(S), NEW i \in 1 .. Len(v), NEW e \in S
  PROVE  /\ [v EXCEPT ![i] = e] \in Seq(S)
         /\ Len([v EXCEPT ![i] = e]) = Len(v)
         /\ [v EXCEPT ![i] = e][i] = e
         /\ \A j \in 1 .. Len(v) : j # i => [v EXCEPT ![i] = e][j] = v[j]
OBVIOUS

\* Put keeps the kind of the elements, and changes or adds one.
LEMMA PutSeq ==
  ASSUME NEW S, NEW v \in Seq(S), NEW i \in 1 .. Len(v) + 1, NEW e \in S
  PROVE  /\ Put(v, i, e) \in Seq(S)
         /\ Len(Put(v, i, e)) = IF i = Len(v) + 1 THEN Len(v) + 1 ELSE Len(v)
         /\ Put(v, i, e)[i] = e
         /\ \A j \in 1 .. Len(v) : j # i => Put(v, i, e)[j] = v[j]
BY DEF Put

\* Clearing a shell that nobody else holds: what happens to each table.
LEMMA ClearStep ==
  ASSUME TableInv, ClearGarbage, ~StillShared
  PROVE  /\ c0 \in Users /\ c0 \in Conn
         /\ id0 = shell[c0].uid /\ id0 \in 1 .. Len(id2usershell)
         /\ fd0 = shell[c0].ufd /\ fd0 \in Fd /\ fd0 # Msock
         /\ id2usershell' = [id2usershell EXCEPT ![id0] = Nobody]
         /\ fd2usershell' = [fd2usershell EXCEPT ![fd0] = Nobody]
         /\ id2username' = [id2username EXCEPT ![id0] = NoEntry]
         /\ available_ids' = [available_ids EXCEPT ![id0] = available_ids[id0] + 1]
         /\ afds' = afds \ {fd0}
         /\ maxfd' = IF maxfd = fd0 THEN maxfd - 1 ELSE maxfd
         /\ \E fds \in {{}, pipefds} : open' = open \ ({fd0} \cup fds) /\ pipefds' = pipefds \ fds
         /\ census' = [c \in Conn |-> IF c \in Users \ {c0} THEN census[c] - 1 ELSE 0]
         /\ link' = [link EXCEPT ![c0] = "out"]
         /\ pending' = [pending EXCEPT ![c0] = FALSE]
         /\ garbage_shells' = Tail(garbage_shells)
         /\ status' \in {"up", "sigpipe"}
         /\ UNCHANGED <<shell, pc, rfds, who, todo>>
         /\ Users' = Users \ {c0}
<1>0. status = "up" /\ garbage_shells # <<>>
  BY DEF ClearGarbage
<1>1. /\ c0 \in Users /\ c0 \in Conn
      /\ id0 = shell[c0].uid /\ id0 \in 1 .. Len(id2usershell)
      /\ fd0 = shell[c0].ufd /\ fd0 \in Fd /\ fd0 # Msock
  BY <1>0, HeadFacts, UserFacts DEF id0, fd0
<1>2. /\ SendTo(Users)
      /\ id2usershell' = [id2usershell EXCEPT ![id0] = Nobody]
      /\ fd2usershell' = FreeFd
      /\ id2username' = FreeName
      /\ available_ids' = [available_ids EXCEPT ![id0] = @ + 1]
      /\ afds' = afds \ {fd0}
      /\ maxfd' = LowerMaxfd
      /\ \E fds \in {{}, pipefds} : open' = open \ ({fd0} \cup fds) /\ pipefds' = pipefds \ fds
      /\ census' = [c \in Conn |-> IF c \in Users \ {c0} THEN census[c] - 1 ELSE 0]
      /\ link' = [link EXCEPT ![c0] = "out"]
      /\ pending' = [pending EXCEPT ![c0] = FALSE]
      /\ garbage_shells' = Tail(garbage_shells)
      /\ UNCHANGED <<shell, loop>>
  BY DEF ClearGarbage
<1>3. status' \in {"up", "sigpipe"}
  BY <1>2, SendType
<1>4. Users' = Users \ {c0}
  BY <1>0, <1>2, UsersAfterClear
<1> QED
  BY <1>1, <1>2, <1>3, <1>4 DEF FreeFd, FreeName, LowerMaxfd, loop

\* What clearing one shell leaves.
LEMMA ClearType ==
  ASSUME TableInv, ClearGarbage
  PROVE  TypeOK'
<1>0. TypeOK /\ status = "up" /\ garbage_shells # <<>> /\ IdsPartitioned /\ NamesAgree
  BY DEF TableInv, ClearGarbage
<1>1. garbage_shells' \in Seq(Conn)
  BY <1>0, HeadFacts DEF ClearGarbage
<1>2. CASE StillShared
  BY <1>0, <1>1, <1>2 DEF ClearGarbage, TypeOK, tables, kernel, loop
<1>3. CASE ~StillShared
  <2>1. maxfd' \in Fd
    <3>1. maxfd \in Fd /\ fd0 \in Fd /\ fd0 # Msock
          /\ maxfd' = IF maxfd = fd0 THEN maxfd - 1 ELSE maxfd
      BY <1>0, <1>3, ClearStep DEF TypeOK
    <3> QED
      BY <3>1, FdAssumption DEF Fd
  <2>0. /\ id0 \in 1 .. Len(id2usershell)
        /\ id2usershell' = [id2usershell EXCEPT ![id0] = Nobody]
        /\ id2username' = [id2username EXCEPT ![id0] = NoEntry]
        /\ available_ids' = [available_ids EXCEPT ![id0] = available_ids[id0] + 1]
    BY <1>3, ClearStep
  <2>2. id2usershell' \in Seq(Conn \cup {Nobody})
    <3>1. id2usershell \in Seq(Conn \cup {Nobody}) /\ Nobody \in Conn \cup {Nobody}
      BY <1>0 DEF TypeOK
    <3> QED
      BY ONLY <2>0, <3>1, ExceptSeq
  <2>3. fd2usershell' \in [Fd -> Conn \cup {Nobody}]
    BY <1>0, <1>3, ClearStep DEF TypeOK
  <2>4. id2username' \in Seq(Name \cup {NoName, NoEntry})
    <3>1. /\ id2username \in Seq(Name \cup {NoName, NoEntry})
          /\ NoEntry \in Name \cup {NoName, NoEntry}
      BY <1>0 DEF TypeOK
    <3>2. id0 \in 1 .. Len(id2username)
      BY <1>0, <2>0 DEF NamesAgree
    <3> QED
      BY ONLY <2>0, <3>1, <3>2, ExceptSeq
  <2>5. available_ids' \in Seq(Nat)
    <3>1. id0 \in 1 .. Len(available_ids) /\ available_ids \in Seq(Nat)
      BY <1>0, <2>0 DEF IdsPartitioned, TypeOK
    <3>2. available_ids[id0] + 1 \in Nat
      BY <3>1
    <3> QED
      BY ONLY <2>0, <3>1, <3>2, ExceptSeq
  <2>6. census' \in [Conn -> Int]
    BY <1>0, <1>3, ClearStep DEF TypeOK
  <2>7. /\ afds' \subseteq Fd /\ open' \subseteq Fd /\ pipefds' \subseteq Fd
        /\ link' \in [Conn -> {"out", "up", "fin", "rst"}]
        /\ pending' \in [Conn -> BOOLEAN]
    BY <1>0, <1>3, ClearStep DEF TypeOK
  <2>8. status' \in {"up", "exit", "sigpipe"}
    BY <1>0, <1>3, ClearStep
  <2>9. UNCHANGED <<shell, pc, rfds, who, todo>>
    BY <1>3, ClearStep
  <2> QED
    BY <1>0, <1>1, <2>1, <2>2, <2>3, <2>4, <2>5, <2>6, <2>7, <2>8, <2>9 DEF TypeOK
<1> QED
  BY <1>2, <1>3

-----------------------------------------------------------------------------
(* The clearing of the queue keeps the invariant.                          *)

\* A shell that the queue still holds leaves it with the same users.
LEMMA ClearShared ==
  ASSUME TableInv, ClearGarbage, StillShared
  PROVE  TableInv'
<1>0. /\ status = "up" /\ pc = "clear" /\ garbage_shells # <<>>
      /\ garbage_shells' = Tail(garbage_shells)
      /\ UNCHANGED <<tables, kernel, status, census, shell, loop>>
  BY DEF ClearGarbage
<1>1. TypeOK'
  BY ClearType
<1>2. Users' = Users
  BY <1>0 DEF Users, tables
<1>3. {garbage_shells'[i] : i \in 1 .. Len(garbage_shells')}
        = {garbage_shells[i] : i \in 1 .. Len(garbage_shells)}
  <2> DEFINE n == Len(garbage_shells)
  <2>1. /\ n \in Nat \ {0} /\ garbage_shells[1] = c0
        /\ Len(garbage_shells') = n - 1
        /\ \A i \in 1 .. n - 1 : garbage_shells'[i] = garbage_shells[i + 1]
    BY <1>0, HeadFacts
  <2>2. PICK k \in 2 .. n : garbage_shells[k] = c0
    BY DEF StillShared
  <2>3. garbage_shells'[k - 1] = garbage_shells[1] /\ k - 1 \in 1 .. n - 1
    BY <2>1, <2>2
  <2>4. \A i \in 1 .. n : i # 1 => i - 1 \in 1 .. n - 1 /\ garbage_shells'[i - 1] = garbage_shells[i]
    BY <2>1
  <2>5. \A i \in 1 .. n : \E j \in 1 .. n - 1 : garbage_shells'[j] = garbage_shells[i]
    BY <2>3, <2>4
  <2>6. \A j \in 1 .. n - 1 : \E i \in 1 .. n : garbage_shells'[j] = garbage_shells[i]
    BY <2>1
  <2>7. Len(garbage_shells') = n - 1
    BY <2>1
  <2> HIDE DEF n
  <2>8. {garbage_shells'[j] : j \in 1 .. n - 1} = {garbage_shells[i] : i \in 1 .. n}
    BY ONLY <2>5, <2>6
  <2> QED
    BY <2>7, <2>8 DEF n
<1>4. QueueIsTheDead'
  BY <1>0, <1>2, <1>3 DEF TableInv, QueueIsTheDead
<1>5. WatchedFds' /\ IdsPartitioned' /\ NamesAgree' /\ ScanInv'
  BY <1>0, <1>2 DEF TableInv, WatchedFds, IdsPartitioned, NamesAgree, ScanInv, tables, kernel, loop
<1> QED
  BY <1>1, <1>4, <1>5 DEF TableInv

\* The last reference to a shell takes its user out of every table.
LEMMA ClearLast ==
  ASSUME TableInv, ClearGarbage, ~StillShared
  PROVE  TableInv'
<1>0. /\ TypeOK /\ WatchedFds /\ IdsPartitioned /\ NamesAgree /\ QueueIsTheDead
      /\ status = "up" /\ pc = "clear" /\ garbage_shells # <<>>
  BY DEF TableInv, ClearGarbage
<1>1. TypeOK'
  BY ClearType
<1>2. Users' = Users \ {c0} /\ shell' = shell /\ c0 \in Users
  BY ClearStep
<1>3. WatchedFds'
  <2>1. \A c \in Users : /\ shell[c].ufd = fd0 <=> c = c0
                         /\ shell[c].ufd \in Fd /\ fd2usershell[shell[c].ufd] = c
    BY <1>0, <1>2, UserFacts, ClearStep
  <2>2. afds' = {Msock} \cup {shell'[c].ufd : c \in Users'}
    BY <1>0, <1>2, <2>1, ClearStep DEF WatchedFds
  <2>3. \A g \in Fd : fd2usershell'[g] = IF g = fd0 THEN Nobody ELSE fd2usershell[g]
    BY <1>0, ClearStep DEF TypeOK
  <2>4. \A c \in Users' : fd2usershell'[shell'[c].ufd] = c
    BY <1>2, <2>1, <2>3
  <2>5. \A g \in Fd : fd2usershell'[g] # Nobody => shell'[fd2usershell'[g]].ufd = g
    BY <1>0, <1>2, <2>3 DEF WatchedFds
  <2>6. \A g \in afds' : g <= maxfd' /\ g \in open' /\ g \notin pipefds'
    <3>1. TAKE g \in afds'
    <3>2. g \in afds /\ g # fd0 /\ afds \subseteq Fd /\ g \in Fd
      BY <1>0, ClearStep DEF TypeOK
    <3>3. g <= maxfd /\ g \in open /\ g \notin pipefds
      BY <1>0, <3>2 DEF WatchedFds
    <3>4. g <= maxfd'
      <4>1. maxfd' = IF maxfd = fd0 THEN maxfd - 1 ELSE maxfd
        BY ClearStep
      <4>2. maxfd \in Int /\ g \in Int
        BY <1>0, <3>2, FdAssumption DEF TypeOK, Fd
      <4> QED
        BY <3>2, <3>3, <4>1, <4>2
    <3> QED
      BY <3>2, <3>3, <3>4, ClearStep
  <2>7. Msock \notin {shell'[c].ufd : c \in Users'}
    BY <1>0, <1>2 DEF WatchedFds
  <2> QED
    BY <2>2, <2>4, <2>5, <2>6, <2>7 DEF WatchedFds
<1>4. IdsPartitioned'
  <2> DEFINE n == Len(id2usershell)
  <2>1. /\ id0 = shell[c0].uid /\ id0 \in 1 .. n
        /\ id2usershell' = [id2usershell EXCEPT ![id0] = Nobody]
        /\ available_ids' = [available_ids EXCEPT ![id0] = available_ids[id0] + 1]
    BY ClearStep
  <2>2. /\ Len(available_ids) = n /\ id2usershell[id0] = c0 /\ c0 # Nobody /\ available_ids[id0] = 0
    BY <1>0, <1>2, <2>1, UserFacts DEF IdsPartitioned
  <2>3. /\ Len(id2usershell') = n /\ id2usershell'[id0] = Nobody
        /\ \A j \in 1 .. n : j # id0 => id2usershell'[j] = id2usershell[j]
    <3>1. id2usershell \in Seq(Conn \cup {Nobody}) /\ Nobody \in Conn \cup {Nobody}
      BY <1>0 DEF TypeOK
    <3> QED
      BY ONLY <2>1, <3>1, ExceptSeq
  <2>4. /\ Len(available_ids') = n /\ available_ids'[id0] = 1
        /\ \A j \in 1 .. n : j # id0 => available_ids'[j] = available_ids[j]
    <3>1. available_ids \in Seq(Nat) /\ id0 \in 1 .. Len(available_ids) /\ available_ids[id0] + 1 = 1
      BY <1>0, <2>1, <2>2 DEF TypeOK
    <3> QED
      BY ONLY <2>1, <2>2, <3>1, ExceptSeq
  <2>5. \A i \in 1 .. n : i # id0 => id2usershell[i] # c0
    BY <1>0, <1>2, <2>1, UserFacts
  <2>6. \A i \in 1 .. n :
          IF id2usershell'[i] = Nobody THEN available_ids'[i] = 1
          ELSE /\ available_ids'[i] = 0
               /\ id2usershell'[i] \in Users' /\ shell'[id2usershell'[i]].uid = i
    BY <1>0, <1>2, <2>3, <2>4, <2>5 DEF IdsPartitioned
  <2>7. \A c \in Users' : shell'[c].uid \in 1 .. n /\ id2usershell'[shell'[c].uid] = c
    <3>1. TAKE c \in Users'
    <3>2. c \in Users /\ c # c0 /\ shell'[c].uid = shell[c].uid
      BY <1>2
    <3>3. shell[c].uid \in 1 .. n /\ id2usershell[shell[c].uid] = c
      BY <1>0, <3>2, UserFacts
    <3> QED
      BY <2>2, <2>3, <3>2, <3>3
  <2> QED
    BY <2>3, <2>4, <2>6, <2>7 DEF IdsPartitioned
<1>5. NamesAgree'
  <2> DEFINE n == Len(id2usershell)
  <2>1. /\ id0 \in 1 .. n
        /\ id2usershell' = [id2usershell EXCEPT ![id0] = Nobody]
        /\ id2username' = [id2username EXCEPT ![id0] = NoEntry]
    BY ClearStep
  <2>2. /\ Len(id2usershell') = n /\ id2usershell'[id0] = Nobody
        /\ \A j \in 1 .. n : j # id0 => id2usershell'[j] = id2usershell[j]
    <3>1. id2usershell \in Seq(Conn \cup {Nobody}) /\ Nobody \in Conn \cup {Nobody}
      BY <1>0 DEF TypeOK
    <3> QED
      BY ONLY <2>1, <3>1, ExceptSeq
  <2>3. /\ Len(id2username') = n /\ id2username'[id0] = NoEntry
        /\ \A j \in 1 .. n : j # id0 => id2username'[j] = id2username[j]
    <3>1. /\ id2username \in Seq(Name \cup {NoName, NoEntry})
          /\ NoEntry \in Name \cup {NoName, NoEntry} /\ Len(id2username) = n
      BY <1>0 DEF TypeOK, NamesAgree
    <3> QED
      BY ONLY <2>1, <3>1, ExceptSeq
  <2>4. \A i \in 1 .. n : id2username'[i] = IF id2usershell'[i] = Nobody THEN NoEntry
                                            ELSE shell'[id2usershell'[i]].name
    BY <1>0, <1>2, <2>2, <2>3 DEF NamesAgree
  <2> QED
    BY <1>0, <1>2, <2>2, <2>3, <2>4 DEF NamesAgree
<1>6. QueueIsTheDead'
  <2> DEFINE n == Len(garbage_shells)
  <2>1. /\ n \in Nat \ {0} /\ garbage_shells[1] = c0
        /\ Len(garbage_shells') = n - 1
        /\ \A i \in 1 .. n - 1 : garbage_shells'[i] = garbage_shells[i + 1]
    BY <1>0, ClearStep, HeadFacts
  <2>2. \A i \in 2 .. n : garbage_shells[i] # c0
    BY DEF StillShared
  <2>3. \A j \in 1 .. n - 1 : \E i \in 1 .. n : garbage_shells'[j] = garbage_shells[i] /\ garbage_shells'[j] # c0
    BY <2>1, <2>2
  <2>4. \A i \in 1 .. n : i # 1 => i - 1 \in 1 .. n - 1 /\ garbage_shells'[i - 1] = garbage_shells[i]
    BY <2>1
  <2>5. \A i \in 1 .. n : garbage_shells[i] # c0 => \E j \in 1 .. n - 1 : garbage_shells'[j] = garbage_shells[i]
    BY <2>1, <2>4
  <2>6. {garbage_shells'[i] : i \in 1 .. n - 1} = {garbage_shells[i] : i \in 1 .. n} \ {c0}
    BY <2>3, <2>5
  <2> QED
    BY <1>0, <1>2, <2>1, <2>6 DEF QueueIsTheDead
<1>7. ScanInv'
  <2>1. fd0 \in afds /\ pc' = pc
    BY <1>0, <1>2, ClearStep DEF WatchedFds
  <2>2. pipefds \subseteq open /\ fd0 \notin pipefds
    BY <1>0, <2>1 DEF TableInv, ScanInv, WatchedFds
  <2>3. pipefds' \subseteq open'
    BY <2>2, ClearStep
  <2> QED
    BY <1>0, <2>1, <2>3 DEF ScanInv
<1> QED
  BY <1>1, <1>3, <1>4, <1>5, <1>6, <1>7 DEF TableInv

\* Clearing one entry of the queue.
LEMMA ClearInv ==
  ASSUME TableInv, ClearGarbage
  PROVE  TableInv'
BY ClearShared, ClearLast

-----------------------------------------------------------------------------
(* The steps that leave the tables alone.                                  *)

\* What the tables, the queue and the shells say of each other stays true when
\* none of them changes and no watched descriptor is closed or becomes a pipe.
LEMMA TablesUnchanged ==
  ASSUME TableInv, UNCHANGED <<tables, garbage_shells, shell>>, status = "up",
         \A fd \in afds : fd \in open' /\ fd \notin pipefds'
  PROVE  WatchedFds' /\ IdsPartitioned' /\ NamesAgree' /\ QueueIsTheDead' /\ Users' = Users
<1>1. Users' = Users
  BY DEF Users, tables
<1>2. WatchedFds'
  BY <1>1 DEF TableInv, WatchedFds, tables
<1>3. IdsPartitioned' /\ NamesAgree' /\ QueueIsTheDead'
  BY <1>1 DEF TableInv, IdsPartitioned, NamesAgree, QueueIsTheDead, tables
<1> QED
  BY <1>1, <1>2, <1>3

\* The clients and the network.
LEMMA ClientInv ==
  ASSUME TableInv, NEW c \in Conn, ClientStep(c)
  PROVE  TableInv'
<1>1. /\ status = "up"
      /\ UNCHANGED <<tables, garbage_shells, shell, loop, open, pipefds, status, census>>
  BY DEF ClientStep, Connect, Type, Close, Reset, network
<1>2. TypeOK'
  BY ClientType DEF TableInv
<1>3. \A fd \in afds : fd \in open' /\ fd \notin pipefds'
  BY <1>1 DEF TableInv, WatchedFds
<1>4. WatchedFds' /\ IdsPartitioned' /\ NamesAgree' /\ QueueIsTheDead' /\ Users' = Users
  BY <1>1, <1>3, TablesUnchanged
<1>5. ScanInv'
  BY <1>1, <1>4 DEF TableInv, ScanInv, tables, loop
<1> QED
  BY <1>2, <1>4, <1>5 DEF TableInv

\* select() answers descriptors that are watched.
LEMMA SelectInv ==
  ASSUME TableInv, Select \/ EndScan
  PROVE  TableInv'
<1>1. /\ status = "up"
      /\ UNCHANGED <<tables, garbage_shells, shell, who, todo, kernel, status, census>>
      /\ pc' \in {"scan", "clear"}
      /\ pc' = "scan" => rfds' \subseteq afds
      /\ rfds' \subseteq afds \/ rfds' = rfds
  BY DEF Select, EndScan
<1>2. TypeOK'
  BY <1>1 DEF TableInv, TypeOK, tables, kernel
<1>3. \A fd \in afds : fd \in open' /\ fd \notin pipefds'
  BY <1>1 DEF TableInv, WatchedFds, kernel
<1>4. WatchedFds' /\ IdsPartitioned' /\ NamesAgree' /\ QueueIsTheDead' /\ Users' = Users
  BY <1>1, <1>3, TablesUnchanged
<1>5. ScanInv'
  BY <1>1 DEF TableInv, ScanInv, tables, kernel
<1> QED
  BY <1>2, <1>4, <1>5 DEF TableInv

\* A watched descriptor leads to a user: its line is executed, or it is passed
\* over; it never stops the server.
LEMMA ServeInv ==
  ASSUME TableInv, NEW fd \in Fd, Serve(fd)
  PROVE  TableInv' /\ status' = "up"
<1>1. /\ status = "up" /\ pc = "scan" /\ fd \in rfds /\ fd # Msock
      /\ rfds' = rfds \ {fd}
      /\ UNCHANGED <<tables, garbage_shells, shell, open, pipefds, link, census>>
  BY DEF Serve, At
<1>2. TypeOK /\ WatchedFds /\ ScanInv
  BY DEF TableInv
<1> DEFINE c == fd2usershell[fd]
<1>3. c \in Users /\ c # Nobody
  <2>1. fd \in afds
    BY <1>1, <1>2 DEF ScanInv
  <2>2. PICK d \in Users : fd = shell[d].ufd
    BY <1>1, <1>2, <2>1 DEF WatchedFds
  <2> QED
    BY <1>1, <2>2, UserFacts
<1>4. status' = "up"
  BY <1>1, <1>3 DEF Serve
<1>5. \/ UNCHANGED <<pc, who, todo, pending>>
      \/ /\ pc' = "exec" /\ who' = c /\ todo' \in Lines \cup {<<ExitTask>>}
         /\ pending' = [pending EXCEPT ![c] = FALSE]
  BY <1>3 DEF Serve
<1>6. TypeOK'
  <2>1. <<ExitTask>> \in Seq(Task)
    BY DEF ExitTask, Task
  <2>2. todo' \in Seq(Task)
    BY <1>2, <1>5, <2>1, LineAssumption DEF TypeOK
  <2>3. c \in Conn
    BY <1>3 DEF Users
  <2>4. /\ pc' \in {"clear", "scan", "exec"} /\ who' \in Conn \cup {Nobody}
        /\ pending' \in [Conn -> BOOLEAN]
    BY <1>2, <1>5, <2>3 DEF TypeOK
  <2>5. rfds' \subseteq Fd
    BY <1>1, <1>2 DEF TypeOK
  <2> QED
    BY <1>1, <1>2, <1>4, <2>2, <2>4, <2>5 DEF TypeOK, tables
<1>7. \A g \in afds : g \in open' /\ g \notin pipefds'
  BY <1>1, <1>2 DEF WatchedFds
<1>8. WatchedFds' /\ IdsPartitioned' /\ NamesAgree' /\ QueueIsTheDead' /\ Users' = Users
  BY <1>1, <1>7, TablesUnchanged
<1>9. ScanInv'
  BY <1>1, <1>2, <1>3, <1>5, <1>8 DEF ScanInv, tables
<1> QED
  BY <1>4, <1>6, <1>8, <1>9 DEF TableInv

-----------------------------------------------------------------------------
(* The builtins.                                                           *)

\* What every builtin does to the loop, and whose line it is.
LEMMA DoingFacts ==
  ASSUME TableInv, NEW op, Doing(op)
  PROVE  /\ status = "up" /\ pc = "exec" /\ who \in Users /\ who \in Conn
         /\ task \in Task /\ task.op = op
         /\ todo' \in Seq(Task)
         /\ UNCHANGED <<pc, rfds, who>>
<1>1. /\ status = "up" /\ pc = "exec" /\ todo # <<>> /\ task.op = op
      /\ todo' = Tail(todo) /\ UNCHANGED <<pc, rfds, who>>
  BY DEF Doing
<1>2. who \in Users /\ who \in Conn
  BY <1>1 DEF TableInv, ScanInv, Users
<1>3. task \in Task /\ todo' \in Seq(Task)
  BY <1>1 DEF TableInv, TypeOK, task
<1> QED
  BY <1>1, <1>2, <1>3

\* The builtins that only send messages, and the end of the line.
LEMMA MessageInv ==
  ASSUME TableInv, DoQuiet \/ DoYell \/ DoTell \/ EndLine
  PROVE  TableInv' /\ status' # "exit"
<1>1. /\ status = "up" /\ pc = "exec" /\ pc' \in {"exec", "scan"} /\ rfds' = rfds
      /\ who' \in {who, Nobody} /\ (pc' = "exec" => who' = who)
      /\ todo' \in Seq(Task)
      /\ UNCHANGED <<tables, garbage_shells, shell, kernel, census>>
  <2>1. CASE DoQuiet
    BY <2>1, DoingFacts DEF DoQuiet
  <2>2. CASE DoYell
    BY <2>2, DoingFacts DEF DoYell
  <2>3. CASE DoTell
    BY <2>3, DoingFacts DEF DoTell
  <2>4. CASE EndLine
    BY <2>4 DEF EndLine, InWaitpid, TableInv, TypeOK
  <2> QED
    BY <2>1, <2>2, <2>3, <2>4
<1>2. status' \in {"up", "sigpipe", "thrown"}
  BY SendType DEF DoQuiet, DoYell, DoTell, EndLine
<1>3. TypeOK'
  BY <1>1, <1>2 DEF TableInv, TypeOK, tables, kernel
<1>4. \A fd \in afds : fd \in open' /\ fd \notin pipefds'
  BY <1>1 DEF TableInv, WatchedFds, kernel
<1>5. WatchedFds' /\ IdsPartitioned' /\ NamesAgree' /\ QueueIsTheDead' /\ Users' = Users
  BY <1>1, <1>4, TablesUnchanged
<1>6. ScanInv'
  BY <1>1, <1>5 DEF TableInv, ScanInv, tables, kernel
<1> QED
  BY <1>2, <1>3, <1>5, <1>6 DEF TableInv

\* The pipes that commands leave open never take a user's descriptor.
LEMMA PipeInv ==
  ASSUME TableInv, DoPipe \/ DoUnpipe
  PROVE  TableInv' /\ status' = status
<1>1. /\ status = "up" /\ pc = "exec" /\ who \in Users /\ todo' \in Seq(Task)
      /\ UNCHANGED <<pc, rfds, who>>
      /\ UNCHANGED <<tables, garbage_shells, shell, link, pending, status, census>>
  <2>1. CASE DoPipe
    BY <2>1, DoingFacts DEF DoPipe
  <2>2. CASE DoUnpipe
    BY <2>2, DoingFacts DEF DoUnpipe
  <2> QED
    BY <2>1, <2>2
<1>2. TypeOK /\ WatchedFds
  BY DEF TableInv
<1>3. \/ open' = open /\ pipefds' = pipefds
      \/ \E fds \in SUBSET (Fd \ open) : open' = open \cup fds /\ pipefds' = pipefds \cup fds
      \/ open' = open \ pipefds /\ pipefds' = {}
  <2>1. CASE DoPipe /\ pipefds # {}
    BY <2>1 DEF DoPipe
  <2>2. CASE DoPipe /\ pipefds = {}
    <3>1. PICK r, w \in Fd \ open : open' = open \cup {r, w} /\ pipefds' = pipefds \cup {r, w}
      BY <2>2 DEF DoPipe
    <3>2. {r, w} \in SUBSET (Fd \ open)
      OBVIOUS
    <3> QED
      BY <3>1, <3>2
  <2>3. CASE DoUnpipe
    BY <2>3 DEF DoUnpipe
  <2> QED
    BY <2>1, <2>2, <2>3
<1>4. open' \subseteq Fd /\ pipefds' \subseteq Fd
  BY <1>2, <1>3 DEF TypeOK
<1>5. TypeOK'
  BY <1>1, <1>2, <1>4 DEF TypeOK, tables
<1>6. \A fd \in afds : fd \in open' /\ fd \notin pipefds'
  BY <1>1, <1>2, <1>3 DEF WatchedFds
<1>7. WatchedFds' /\ IdsPartitioned' /\ NamesAgree' /\ QueueIsTheDead' /\ Users' = Users
  BY <1>1, <1>6, TablesUnchanged
<1>8. ScanInv'
  <2>1. pipefds' \subseteq open'
    BY <1>1, <1>3 DEF TableInv, ScanInv
  <2> QED
    BY <1>1, <1>7, <2>1 DEF TableInv, ScanInv, tables
<1> QED
  BY <1>1, <1>5, <1>7, <1>8 DEF TableInv

\* A name that nobody has is taken by one user only.
LEMMA NameInv ==
  ASSUME TableInv, DoName
  PROVE  TableInv' /\ status' # "exit"
<1>0. TypeOK /\ WatchedFds /\ IdsPartitioned /\ NamesAgree /\ QueueIsTheDead /\ ScanInv
  BY DEF TableInv
<1>1. /\ status = "up" /\ pc = "exec" /\ who \in Users /\ who \in Conn
      /\ task \in Task /\ todo' \in Seq(Task)
      /\ UNCHANGED <<pc, rfds, who>>
      /\ UNCHANGED <<afds, maxfd, id2usershell, fd2usershell, available_ids, garbage_shells, kernel, census>>
  BY DoingFacts DEF DoName
<1>2. status' \in {"up", "sigpipe"}
  BY SendType DEF DoName
<1>3. \A fd \in afds : fd \in open' /\ fd \notin pipefds'
  BY <1>0, <1>1 DEF WatchedFds, kernel
<1>4. Users' = Users
  BY <1>1 DEF Users
<1>5. ScanInv'
  BY <1>0, <1>1, <1>4 DEF ScanInv, kernel
<1>6. CASE IsSame(task.name)
  <2>1. UNCHANGED <<id2username, shell>>
    BY <1>6 DEF DoName
  <2>2. TypeOK'
    BY <1>0, <1>1, <1>2, <2>1 DEF TypeOK, kernel
  <2>3. WatchedFds' /\ IdsPartitioned' /\ NamesAgree' /\ QueueIsTheDead'
    BY <1>1, <1>3, <2>1, TablesUnchanged DEF tables
  <2> QED
    BY <1>2, <1>5, <2>2, <2>3 DEF TableInv
<1>7. CASE ~IsSame(task.name)
  <2> DEFINE n   == task.name
             uid == shell[who].uid
  <2>1. /\ id2username' = [id2username EXCEPT ![uid] = n]
        /\ shell' = [shell EXCEPT ![who].name = n]
    BY <1>7 DEF DoName
  <2>2. n \in Name \cup {NoName} /\ n # NoEntry
    BY <1>1, NameAssumption DEF Task
  <2>3. uid \in 1 .. Len(id2usershell) /\ id2usershell[uid] = who /\ Len(id2username) = Len(id2usershell)
    BY <1>0, <1>1, UserFacts DEF NamesAgree
  <2>4. /\ id2username' \in Seq(Name \cup {NoName, NoEntry})
        /\ Len(id2username') = Len(id2username) /\ id2username'[uid] = n
        /\ \A j \in 1 .. Len(id2username) : j # uid => id2username'[j] = id2username[j]
    <3>1. id2username \in Seq(Name \cup {NoName, NoEntry}) /\ n \in Name \cup {NoName, NoEntry}
      BY <1>0, <2>2 DEF TypeOK
    <3>2. uid \in 1 .. Len(id2username)
      BY <2>3
    <3> QED
      BY ONLY <2>1, <3>1, <3>2, ExceptSeq
  <2>5. /\ shell' \in [Conn -> [ufd : Fd, uid : Nat, isalive : BOOLEAN, name : Name \cup {NoName}]]
        /\ \A c \in Conn : /\ shell'[c].ufd = shell[c].ufd /\ shell'[c].uid = shell[c].uid
                           /\ shell'[c].isalive = shell[c].isalive
                           /\ shell'[c].name = IF c = who THEN n ELSE shell[c].name
    <3>1. /\ shell \in [Conn -> [ufd : Fd, uid : Nat, isalive : BOOLEAN, name : Name \cup {NoName}]]
          /\ who \in Conn /\ shell' = [shell EXCEPT ![who].name = n]
      BY <1>0, <1>1, <2>1 DEF TypeOK
    <3> HIDE DEF n
    <3> QED
      BY ONLY <2>2, <3>1
  <2>6. TypeOK'
    BY <1>0, <1>1, <1>2, <2>4, <2>5 DEF TypeOK, kernel
  <2>7. Users \subseteq Conn /\ \A c \in Users : c # Nobody
    BY NobodyAssumption DEF Users
  <2>8. WatchedFds'
    <3>1. {shell'[c].ufd : c \in Users} = {shell[c].ufd : c \in Users}
      BY <2>5, <2>7
    <3>2. \A fd \in Fd : fd2usershell[fd] # Nobody => fd2usershell[fd] \in Conn
      BY <1>0 DEF TypeOK
    <3> QED
      BY <1>0, <1>1, <1>3, <1>4, <2>5, <2>7, <3>1, <3>2 DEF WatchedFds
  <2>9. IdsPartitioned'
    BY <1>0, <1>1, <1>4, <2>5, <2>7, ZenonT(30) DEF IdsPartitioned
  <2>10. QueueIsTheDead'
    <3>1. {c \in Users : ~shell'[c].isalive} = {c \in Users : ~shell[c].isalive}
      BY ONLY <2>5, <2>7
    <3> QED
      BY <1>0, <1>1, <1>4, <3>1 DEF QueueIsTheDead
  <2>11. NamesAgree'
    <3>1. \A i \in 1 .. Len(id2usershell) : id2usershell[i] # Nobody =>
            /\ id2usershell[i] \in Users
            /\ id2usershell[i] = who => i = uid
      BY <1>0, <1>1 DEF IdsPartitioned
    <3>2. \A i \in 1 .. Len(id2usershell) :
            id2username'[i] = IF id2usershell[i] = Nobody THEN NoEntry ELSE shell'[id2usershell[i]].name
      <4>1. TAKE i \in 1 .. Len(id2usershell)
      <4>2. id2username[i] = IF id2usershell[i] = Nobody THEN NoEntry ELSE shell[id2usershell[i]].name
        BY <1>0, <1>1 DEF NamesAgree
      <4>3. CASE i = uid
        BY ONLY <1>1, <2>3, <2>4, <2>5, <2>7, <4>3
      <4>4. CASE i # uid
        <5>1. id2username'[i] = id2username[i]
          BY ONLY <2>3, <2>4, <4>4, i \in 1 .. Len(id2usershell)
        <5>2. CASE id2usershell[i] = Nobody
          BY <4>2, <5>1, <5>2
        <5>3. CASE id2usershell[i] # Nobody
          <6>1. id2usershell[i] \in Conn /\ id2usershell[i] # who
            BY <2>7, <3>1, <4>4, <5>3
          <6> QED
            BY <2>5, <4>2, <5>1, <5>3, <6>1
        <5> QED
          BY <5>2, <5>3
      <4> QED
        BY <4>3, <4>4
    <3>3. \A c \in Users : shell[c].name # n
      <4>1. TAKE c \in Users
      <4>2. /\ shell[c].uid \in 1 .. Len(id2username)
            /\ id2username[shell[c].uid] = shell[c].name
        BY <1>0, <2>3, <2>7, <1>1, UserFacts DEF NamesAgree
      <4> QED
        BY <1>7, <4>2 DEF IsSame
    <3>4. \A c, d \in Users : shell'[c].name = shell'[d].name /\ shell'[c].name # NoName => c = d
      BY <1>0, <1>1, <2>5, <2>7, <3>3 DEF NamesAgree
    <3> QED
      BY <1>1, <1>4, <2>3, <2>4, <3>2, <3>4 DEF NamesAgree
  <2> QED
    BY <1>2, <1>5, <2>6, <2>8, <2>9, <2>10, <2>11 DEF TableInv
<1> QED
  BY <1>6, <1>7

\* A user that exits joins the queue and is dead from then on.
LEMMA ExitInv ==
  ASSUME TableInv, DoExit
  PROVE  TableInv' /\ status' = "up"
<1>0. TypeOK /\ WatchedFds /\ IdsPartitioned /\ NamesAgree /\ QueueIsTheDead /\ ScanInv
  BY DEF TableInv
<1>1. /\ status = "up" /\ pc = "exec" /\ who \in Users /\ who \in Conn
      /\ todo' \in Seq(Task)
      /\ UNCHANGED <<pc, rfds, who>>
      /\ UNCHANGED <<tables, kernel, status, census>>
      /\ shell' = [shell EXCEPT ![who].isalive = FALSE]
  BY DoingFacts DEF DoExit, MarkDead
<1>2. garbage_shells' = Append(garbage_shells, who)
  <2>1. /\ id2usershell[shell[who].uid] = who /\ who # Nobody
        /\ fd2usershell[shell[who].ufd] = who
    BY <1>1, UserFacts
  <2> QED
    BY <2>1 DEF DoExit
<1>3. /\ shell' \in [Conn -> [ufd : Fd, uid : Nat, isalive : BOOLEAN, name : Name \cup {NoName}]]
      /\ \A c \in Conn : /\ shell'[c].ufd = shell[c].ufd /\ shell'[c].uid = shell[c].uid
                         /\ shell'[c].name = shell[c].name
                         /\ shell'[c].isalive = IF c = who THEN FALSE ELSE shell[c].isalive
  <2>1. /\ shell \in [Conn -> [ufd : Fd, uid : Nat, isalive : BOOLEAN, name : Name \cup {NoName}]]
        /\ who \in Conn /\ shell' = [shell EXCEPT ![who].isalive = FALSE]
    BY <1>0, <1>1 DEF TypeOK
  <2> QED
    BY ONLY <2>1
<1>4. TypeOK'
  <2>1. garbage_shells' \in Seq(Conn)
    BY <1>0, <1>1, <1>2 DEF TypeOK
  <2> QED
    BY <1>0, <1>1, <1>3, <2>1 DEF TypeOK, tables, kernel
<1>5. Users' = Users /\ Users \subseteq Conn /\ \A c \in Users : c # Nobody
  BY <1>1, NobodyAssumption DEF Users, tables
<1>6. WatchedFds'
  <2>1. {shell'[c].ufd : c \in Users} = {shell[c].ufd : c \in Users}
    BY <1>3, <1>5
  <2>2. \A fd \in Fd : fd2usershell[fd] # Nobody => fd2usershell[fd] \in Conn
    BY <1>0 DEF TypeOK
  <2> QED
    BY <1>0, <1>1, <1>3, <1>5, <2>1, <2>2 DEF WatchedFds, tables, kernel
<1>7. IdsPartitioned'
  BY <1>0, <1>1, <1>3, <1>5 DEF IdsPartitioned, tables
<1>8. NamesAgree'
  <2>1. \A i \in 1 .. Len(id2usershell) : id2usershell[i] # Nobody => id2usershell[i] \in Conn
    BY <1>0, <1>1, <1>5 DEF IdsPartitioned
  <2> QED
    BY <1>0, <1>1, <1>3, <1>5, <2>1 DEF NamesAgree, tables
<1>9. QueueIsTheDead'
  <2> DEFINE n == Len(garbage_shells)
  <2>1. /\ n \in Nat /\ Len(garbage_shells') = n + 1 /\ garbage_shells'[n + 1] = who
        /\ \A i \in 1 .. n : garbage_shells'[i] = garbage_shells[i]
    BY <1>0, <1>1, <1>2 DEF TypeOK
  <2>2. \A i \in 1 .. n + 1 : IF i = n + 1 THEN garbage_shells'[i] = who
                              ELSE i \in 1 .. n /\ garbage_shells'[i] = garbage_shells[i]
    BY <2>1
  <2>3. n + 1 \in 1 .. n + 1 /\ 1 .. n \subseteq 1 .. n + 1
    BY <2>1
  <2>4. {garbage_shells[i] : i \in 1 .. n} = {c \in Users : ~shell[c].isalive}
    BY <1>0, <1>1 DEF QueueIsTheDead
  <2>5. {c \in Users : ~shell'[c].isalive} = {c \in Users : ~shell[c].isalive} \cup {who}
    BY <1>1, <1>3, <1>5
  <2>6. Len(garbage_shells') = n + 1
    BY <2>1
  <2> HIDE DEF n
  <2>7. {garbage_shells'[i] : i \in 1 .. n + 1} = {garbage_shells[i] : i \in 1 .. n} \cup {who}
    BY ONLY <2>1, <2>2, <2>3
  <2> QED
    BY <1>5, <2>4, <2>5, <2>6, <2>7 DEF QueueIsTheDead
<1>10. ScanInv'
  BY <1>0, <1>1, <1>5 DEF ScanInv, tables, kernel
<1> QED
  BY <1>1, <1>4, <1>6, <1>7, <1>8, <1>9, <1>10 DEF TableInv

\* Any step of the line being executed.
LEMMA RunLineInv ==
  ASSUME TableInv, RunLine
  PROVE  TableInv' /\ status' # "exit"
<1>1. CASE DoQuiet \/ DoYell \/ DoTell \/ EndLine
  BY <1>1, MessageInv
<1>2. CASE DoPipe \/ DoUnpipe
  <2>1. status = "up"
    BY <1>2 DEF DoPipe, DoUnpipe, Doing
  <2> QED
    BY <1>2, <2>1, PipeInv
<1>3. CASE DoName
  BY <1>3, NameInv
<1>4. CASE DoExit
  BY <1>4, ExitInv
<1> QED
  BY <1>1, <1>2, <1>3, <1>4 DEF RunLine

-----------------------------------------------------------------------------
(* A client is accepted.                                                   *)

\* What accepting a client does to each table: the checks of create_shell pass.
LEMMA AcceptStep ==
  ASSUME TableInv, NEW c \in Conn, Accept(c)
  PROVE  \E fd \in Fd, uid \in 1 .. Len(id2usershell) + 1 :
           /\ fd \notin afds /\ fd # Msock /\ fd \notin open /\ fd2usershell[fd] = Nobody
           /\ uid # Len(id2usershell) + 1 => id2usershell[uid] = Nobody
           /\ \A i \in 1 .. uid - 1 : i \in 1 .. Len(id2usershell) /\ id2usershell[i] # Nobody
           /\ available_ids' = Put(available_ids, uid, 0)
           /\ id2usershell' = Put(id2usershell, uid, c)
           /\ id2username' = Put(id2username, uid, NoName)
           /\ fd2usershell' = [fd2usershell EXCEPT ![fd] = c]
           /\ shell' = [shell EXCEPT ![c] = [ufd |-> fd, uid |-> uid, isalive |-> TRUE, name |-> NoName]]
           /\ open' = open \cup {fd}
           /\ afds' = afds \cup {fd}
           /\ maxfd' = IF fd > maxfd THEN fd ELSE maxfd
           /\ census' = [d \in Conn |-> IF d = c THEN Cardinality(Users) + 1
                                        ELSE IF d \in Users THEN census[d] + 1 ELSE 0]
           /\ status' \in {"up", "sigpipe"}
<1>0. status = "up" /\ TypeOK /\ IdsPartitioned
  BY DEF Accept, At, TableInv
<1>1. PICK fd \in Fd, uid \in 1 .. Len(id2usershell) + 1 :
        /\ Lowest(fd) /\ CreateId(uid)
        /\ available_ids' = TakeId(uid)
        /\ open' = open \cup {fd}
        /\ shell' = [shell EXCEPT ![c] = [ufd |-> fd, uid |-> uid, isalive |-> TRUE, name |-> NoName]]
        /\ ~Occupied(uid, fd) =>
             /\ SendTo(Users \cup {c})
             /\ id2usershell' = Put(id2usershell, uid, c)
             /\ fd2usershell' = [fd2usershell EXCEPT ![fd] = c]
             /\ id2username' = Put(id2username, uid, NoName)
             /\ afds' = afds \cup {fd}
             /\ maxfd' = RaiseMaxfd(fd)
             /\ census' = [d \in Conn |-> IF d = c THEN Cardinality(Users) + 1
                                          ELSE IF d \in Users THEN census[d] + 1 ELSE 0]
  BY DEF Accept
<1>2. /\ fd \notin open /\ fd \notin afds /\ fd # Msock
      /\ fd2usershell[fd] = Nobody
      /\ uid # Len(id2usershell) + 1 => available_ids[uid] = 1 /\ id2usershell[uid] = Nobody
      /\ \A i \in 1 .. uid - 1 : i \in 1 .. Len(id2usershell) /\ id2usershell[i] # Nobody
      /\ ~Occupied(uid, fd)
  BY <1>0, <1>1, AcceptFacts
<1>3. available_ids' = Put(available_ids, uid, 0)
  <2>1. Len(available_ids) = Len(id2usershell) /\ Len(id2usershell) \in Nat
    BY <1>0 DEF IdsPartitioned, TypeOK
  <2>2. CASE uid \in 1 .. Len(available_ids)
    <3>1. available_ids[uid] - 1 = 0
      BY <1>2, <2>1, <2>2
    <3> QED
      BY <1>1, <2>2, <3>1 DEF TakeId, Put
  <2>3. CASE uid \notin 1 .. Len(available_ids)
    BY <1>1, <2>3 DEF TakeId, Put
  <2> QED
    BY <2>2, <2>3
<1>4. status' \in {"up", "sigpipe"}
  BY <1>1, <1>2, SendType
<1>5. maxfd' = IF fd > maxfd THEN fd ELSE maxfd
  BY <1>1, <1>2 DEF RaiseMaxfd
<1> QED
  BY <1>1, <1>2, <1>3, <1>4, <1>5

\* A client that is accepted enters every table.
LEMMA AcceptInv ==
  ASSUME TableInv, NEW c \in Conn, Accept(c)
  PROVE  TableInv' /\ status' # "exit" /\ Users' = Users \cup {c} /\ c \notin Users
<1>0. TypeOK /\ WatchedFds /\ IdsPartitioned /\ NamesAgree /\ QueueIsTheDead /\ ScanInv
  BY DEF TableInv
<1>1. /\ status = "up" /\ pc = "scan" /\ \E g \in rfds : rfds' = rfds \ {g}
      /\ c \notin Users
      /\ UNCHANGED <<garbage_shells, pc, who, todo, pipefds, link, pending>>
  BY DEF Accept, At, Waiting
<1>2. PICK fd \in Fd, uid \in 1 .. Len(id2usershell) + 1 :
        /\ fd \notin afds /\ fd # Msock /\ fd \notin open /\ fd2usershell[fd] = Nobody
        /\ uid # Len(id2usershell) + 1 => id2usershell[uid] = Nobody
        /\ available_ids' = Put(available_ids, uid, 0)
        /\ id2usershell' = Put(id2usershell, uid, c)
        /\ id2username' = Put(id2username, uid, NoName)
        /\ fd2usershell' = [fd2usershell EXCEPT ![fd] = c]
        /\ shell' = [shell EXCEPT ![c] = [ufd |-> fd, uid |-> uid, isalive |-> TRUE, name |-> NoName]]
        /\ open' = open \cup {fd}
        /\ afds' = afds \cup {fd}
        /\ maxfd' = IF fd > maxfd THEN fd ELSE maxfd
        /\ census' = [d \in Conn |-> IF d = c THEN Cardinality(Users) + 1
                                     ELSE IF d \in Users THEN census[d] + 1 ELSE 0]
        /\ status' \in {"up", "sigpipe"}
  BY AcceptStep
<1>3. Users' = Users \cup {c} /\ Users \subseteq Conn /\ c # Nobody /\ Nobody \notin Users
  BY <1>0, <1>2, UsersAfterAccept, NobodyAssumption DEF Users
<1> DEFINE n == Len(id2usershell)
<1>4. /\ n \in Nat /\ Len(available_ids) = n /\ Len(id2username) = n
      /\ uid \in Nat /\ uid \in 1 .. n + 1
  BY <1>0, <1>1 DEF TypeOK, IdsPartitioned, NamesAgree
<1> DEFINE m == IF uid = n + 1 THEN n + 1 ELSE n
<1>5. /\ id2usershell' \in Seq(Conn \cup {Nobody})
      /\ Len(id2usershell') = m /\ id2usershell'[uid] = c
      /\ \A j \in 1 .. n : j # uid => id2usershell'[j] = id2usershell[j]
  <2>1. id2usershell \in Seq(Conn \cup {Nobody}) /\ c \in Conn \cup {Nobody}
    BY <1>0 DEF TypeOK
  <2>2. id2usershell' = Put(id2usershell, uid, c) /\ uid \in 1 .. Len(id2usershell) + 1
    BY <1>2
  <2> QED
    BY ONLY <2>1, <2>2, PutSeq DEF Put
<1>6. /\ id2username' \in Seq(Name \cup {NoName, NoEntry})
      /\ Len(id2username') = m /\ id2username'[uid] = NoName
      /\ \A j \in 1 .. n : j # uid => id2username'[j] = id2username[j]
  <2>1. /\ id2username \in Seq(Name \cup {NoName, NoEntry})
        /\ NoName \in Name \cup {NoName, NoEntry}
    BY <1>0 DEF TypeOK
  <2>2. /\ id2username' = Put(id2username, uid, NoName)
        /\ uid \in 1 .. Len(id2username) + 1 /\ Len(id2username) = n
    BY <1>2, <1>4
  <2> QED
    BY ONLY <2>1, <2>2, PutSeq DEF Put
<1>7. /\ available_ids' \in Seq(Nat)
      /\ Len(available_ids') = m /\ available_ids'[uid] = 0
      /\ \A j \in 1 .. n : j # uid => available_ids'[j] = available_ids[j]
  <2>1. available_ids \in Seq(Nat) /\ 0 \in Nat
    BY <1>0 DEF TypeOK
  <2>2. /\ available_ids' = Put(available_ids, uid, 0)
        /\ uid \in 1 .. Len(available_ids) + 1 /\ Len(available_ids) = n
    BY <1>2, <1>4
  <2> QED
    BY ONLY <2>1, <2>2, PutSeq DEF Put
<1>8. uid \in 1 .. m /\ \A j \in 1 .. m : j = uid \/ (j # uid /\ j \in 1 .. n)
  BY <1>4
<1>9. /\ shell' \in [Conn -> [ufd : Fd, uid : Nat, isalive : BOOLEAN, name : Name \cup {NoName}]]
      /\ shell'[c] = [ufd |-> fd, uid |-> uid, isalive |-> TRUE, name |-> NoName]
      /\ \A d \in Conn : d # c => shell'[d] = shell[d]
  BY <1>0, <1>2, <1>4 DEF TypeOK
<1>10. TypeOK'
  <2>1. maxfd' \in Fd /\ afds' \subseteq Fd /\ open' \subseteq Fd /\ rfds' \subseteq Fd
    BY <1>0, <1>1, <1>2 DEF TypeOK
  <2>2. fd2usershell' \in [Fd -> Conn \cup {Nobody}]
    BY <1>0, <1>2 DEF TypeOK
  <2>3. census' \in [Conn -> Int]
    BY <1>0, <1>2, UsersFinite DEF TypeOK
  <2>4. status' \in {"up", "exit", "sigpipe"}
    BY <1>2
  <2> QED
    BY <1>0, <1>1, <1>5, <1>6, <1>7, <1>9, <2>1, <2>2, <2>3, <2>4 DEF TypeOK
<1>11. WatchedFds'
  <2>1. \A g \in Fd : fd2usershell'[g] = IF g = fd THEN c ELSE fd2usershell[g]
    BY <1>0, <1>2 DEF TypeOK
  <2>2. /\ \A d \in Users : shell[d].ufd \in Fd /\ shell[d].ufd # fd /\ fd2usershell[shell[d].ufd] = d
        /\ \A d \in Users : d # c /\ d \in Conn /\ shell'[d] = shell[d] /\ shell[d].ufd # Msock
    BY <1>1, <1>2, <1>3, <1>9, UserFacts
  <2>3. shell'[c].ufd = fd
    BY <1>9
  <2>4. afds' = {Msock} \cup {shell'[d].ufd : d \in Users'}
    <3>1. afds = {Msock} \cup {shell[d].ufd : d \in Users}
      BY <1>0, <1>1 DEF WatchedFds
    <3>2. {shell'[d].ufd : d \in Users \cup {c}} = {shell[d].ufd : d \in Users} \cup {fd}
      BY <2>2, <2>3
    <3>3. afds' = afds \cup {fd}
      BY <1>2
    <3> QED
      BY <1>3, <3>1, <3>2, <3>3
  <2>5. \A d \in Users' : fd2usershell'[shell'[d].ufd] = d
    BY <1>2, <1>3, <2>1, <2>2, <2>3
  <2>6. \A g \in Fd : fd2usershell'[g] # Nobody => shell'[fd2usershell'[g]].ufd = g
    <3>1. \A g \in Fd : fd2usershell[g] # Nobody => fd2usershell[g] \in Users /\ shell[fd2usershell[g]].ufd = g
      BY <1>0, <1>1 DEF TypeOK, WatchedFds, Users
    <3> QED
      BY <2>1, <2>2, <2>3, <3>1
  <2>7. \A g \in afds' : g <= maxfd' /\ g \in open' /\ g \notin pipefds'
    <3>1. maxfd \in Int /\ fd \in Int /\ afds \subseteq Int
      BY <1>0, FdAssumption DEF TypeOK, Fd
    <3>2. \A g \in afds : g <= maxfd /\ g \in open /\ g \notin pipefds
      BY <1>0, <1>1 DEF WatchedFds
    <3>3. \A g \in afds' : g <= maxfd'
      BY <1>2, <3>1, <3>2
    <3>4. fd \notin pipefds
      BY <1>0, <1>1, <1>2 DEF ScanInv
    <3> QED
      BY <1>1, <1>2, <3>2, <3>3, <3>4
  <2>8. Msock \notin {shell'[d].ufd : d \in Users'}
    BY <1>2, <1>3, <2>2, <2>3
  <2> QED
    BY <2>4, <2>5, <2>6, <2>7, <2>8 DEF WatchedFds
<1>12. IdsPartitioned'
  <2>1. \A i \in 1 .. n : id2usershell[i] # Nobody =>
          id2usershell[i] \in Users /\ shell[id2usershell[i]].uid = i /\ available_ids[i] = 0
    BY <1>0, <1>1 DEF IdsPartitioned
  <2>2. \A i \in 1 .. n : id2usershell[i] = Nobody => available_ids[i] = 1
    BY <1>0, <1>1 DEF IdsPartitioned
  <2>3. \A d \in Users : d # c /\ d \in Conn /\ shell'[d] = shell[d]
    BY <1>1, <1>3, <1>9
  <2>4. \A i \in 1 .. m :
          IF id2usershell'[i] = Nobody THEN available_ids'[i] = 1
          ELSE /\ available_ids'[i] = 0
               /\ id2usershell'[i] \in Users' /\ shell'[id2usershell'[i]].uid = i
    <3>1. TAKE i \in 1 .. m
    <3>2. CASE i = uid
      BY <1>3, <1>5, <1>7, <1>9, <3>2
    <3>3. CASE i # uid
      <4>1. i \in 1 .. n /\ id2usershell'[i] = id2usershell[i] /\ available_ids'[i] = available_ids[i]
        BY <1>5, <1>7, <1>8, <3>3
      <4> QED
        BY <1>3, <2>1, <2>2, <2>3, <4>1
    <3> QED
      BY <3>2, <3>3
  <2>5. \A d \in Users' : shell'[d].uid \in 1 .. m /\ id2usershell'[shell'[d].uid] = d
    <3>1. TAKE d \in Users'
    <3>2. CASE d = c
      BY <1>5, <1>8, <1>9, <3>2
    <3>3. CASE d # c
      <4>1. d \in Users /\ shell'[d] = shell[d]
        BY <1>3, <2>3, <3>3
      <4>2. shell[d].uid \in 1 .. n /\ id2usershell[shell[d].uid] = d
        BY <1>1, <4>1, UserFacts
      <4>3. shell[d].uid # uid
        BY <1>2, <1>3, <1>4, <4>1, <4>2
      <4> QED
        BY <1>4, <1>5, <4>1, <4>2, <4>3
    <3> QED
      BY <3>2, <3>3
  <2> QED
    BY <1>5, <1>7, <2>4, <2>5 DEF IdsPartitioned
<1>13. NamesAgree'
  <2>1. \A d \in Users : d # c /\ d \in Conn /\ shell'[d] = shell[d]
    BY <1>1, <1>3, <1>9
  <2>2. \A i \in 1 .. m : id2username'[i] = IF id2usershell'[i] = Nobody THEN NoEntry
                                            ELSE shell'[id2usershell'[i]].name
    <3>1. TAKE i \in 1 .. m
    <3>2. CASE i = uid
      BY <1>3, <1>5, <1>6, <1>9, <3>2
    <3>3. CASE i # uid
      <4>1. i \in 1 .. n /\ id2usershell'[i] = id2usershell[i] /\ id2username'[i] = id2username[i]
        BY <1>5, <1>6, <1>8, <3>3
      <4>2. id2usershell[i] # Nobody => id2usershell[i] \in Users
        BY <1>0, <1>1, <4>1 DEF IdsPartitioned
      <4>3. id2username[i] = IF id2usershell[i] = Nobody THEN NoEntry ELSE shell[id2usershell[i]].name
        BY <1>0, <1>1, <4>1 DEF NamesAgree
      <4> QED
        BY <2>1, <4>1, <4>2, <4>3
    <3> QED
      BY <3>2, <3>3
  <2>3. \A d, e \in Users' : shell'[d].name = shell'[e].name /\ shell'[d].name # NoName => d = e
    <3>1. shell'[c].name = NoName
      BY <1>9
    <3>2. \A d, e \in Users : shell[d].name = shell[e].name /\ shell[d].name # NoName => d = e
      BY <1>0, <1>1 DEF NamesAgree
    <3> QED
      BY <1>3, <2>1, <3>1, <3>2
  <2> QED
    BY <1>5, <1>6, <2>2, <2>3 DEF NamesAgree
<1>14. QueueIsTheDead'
  <2>1. \A d \in Users : d # c /\ d \in Conn /\ shell'[d] = shell[d]
    BY <1>1, <1>3, <1>9
  <2>2. shell'[c].isalive = TRUE
    BY <1>9
  <2>3. {d \in Users' : ~shell'[d].isalive} = {d \in Users : ~shell[d].isalive}
    BY ONLY <1>3, <2>1, <2>2
  <2> QED
    BY <1>0, <1>1, <2>3 DEF QueueIsTheDead
<1>15. ScanInv'
  BY <1>0, <1>1, <1>2 DEF ScanInv
<1> QED
  BY <1>1, <1>2, <1>3, <1>10, <1>11, <1>12, <1>13, <1>14, <1>15 DEF TableInv

-----------------------------------------------------------------------------
(* The theorems.                                                           *)

\* The invariant and the fact that the server's own checks have not stopped it.
UpInv == TableInv /\ NeverStops

\* The initial state.
LEMMA UpInit == Init => UpInv
<1> SUFFICES ASSUME Init PROVE UpInv
  OBVIOUS
<1>1. Users = {}
  BY NobodyAssumption DEF Init, Users
<1>2. Msock \in Fd
  BY FdAssumption DEF Fd
<1>3. TypeOK
  BY <1>2 DEF Init, TypeOK, NoShell
<1>4. WatchedFds
  BY <1>1, <1>2, FdAssumption DEF Init, WatchedFds
<1>5. IdsPartitioned /\ NamesAgree /\ QueueIsTheDead /\ ScanInv
  BY <1>1 DEF Init, IdsPartitioned, NamesAgree, QueueIsTheDead, ScanInv
<1>6. NeverStops
  BY DEF Init, NeverStops
<1> QED
  BY <1>3, <1>4, <1>5, <1>6 DEF UpInv, TableInv

\* Every step.
LEMMA UpStep == UpInv /\ [Next]_vars => UpInv'
<1> SUFFICES ASSUME UpInv, [Next]_vars PROVE UpInv'
  OBVIOUS
<1>0. TableInv /\ status # "exit"
  BY DEF UpInv, NeverStops
<1>1. CASE \E c \in Conn : ClientStep(c)
  <2>1. TableInv'
    BY <1>0, <1>1, ClientInv
  <2>2. status' = status
    BY <1>1 DEF ClientStep, Connect, Type, Close, Reset, network
  <2> QED
    BY <1>0, <2>1, <2>2 DEF UpInv, NeverStops
<1>2. CASE ClearGarbage
  <2>1. TableInv'
    BY <1>0, <1>2, ClearInv
  <2>2. status' # "exit"
    BY <1>2, SendType DEF ClearGarbage
  <2> QED
    BY <2>1, <2>2 DEF UpInv, NeverStops
<1>3. CASE Select \/ EndScan
  <2>1. TableInv'
    BY <1>0, <1>3, SelectInv
  <2>2. status' = status
    BY <1>3 DEF Select, EndScan
  <2> QED
    BY <1>0, <2>1, <2>2 DEF UpInv, NeverStops
<1>4. CASE RunLine
  BY <1>0, <1>4, RunLineInv DEF UpInv, NeverStops
<1>5. CASE \E c \in Conn : Accept(c)
  BY <1>0, <1>5, AcceptInv DEF UpInv, NeverStops
<1>6. CASE \E fd \in Fd : Serve(fd)
  BY <1>0, <1>6, ServeInv DEF UpInv, NeverStops
<1>7. CASE UNCHANGED vars
  <2>1. TypeOK'
    BY <1>0, <1>7 DEF TableInv, TypeOK, vars, tables, loop, kernel
  <2>2. Users' = Users
    BY <1>7 DEF Users, vars, tables
  <2>3. WatchedFds' /\ IdsPartitioned' /\ NamesAgree' /\ QueueIsTheDead' /\ ScanInv'
    BY <1>0, <1>7, <2>2 DEF TableInv, WatchedFds, IdsPartitioned, NamesAgree, QueueIsTheDead,
                            ScanInv, vars, tables, loop, kernel
  <2>4. status' = status
    BY <1>7 DEF vars
  <2> QED
    BY <1>0, <2>1, <2>3, <2>4 DEF UpInv, NeverStops, TableInv
<1> QED
  BY <1>1, <1>2, <1>3, <1>4, <1>5, <1>6, <1>7 DEF Next, ServerStep

\* The invariant holds in every state of the server.
THEOREM TablesInvariant == Spec => []UpInv
BY UpInit, UpStep, PTL DEF Spec

\* Every variable keeps its type (the tables of Server and the shells).
THEOREM TypesKept == Spec => []TypeOK
<1>1. UpInv => TypeOK
  BY DEF UpInv, TableInv
<1> QED
  BY <1>1, TablesInvariant, PTL

\* The server selects on the listening socket and on the sockets of its users,
\* each of which leads back to its user (Server::run, clear_garbage_shells).
THEOREM SocketsWatched == Spec => []WatchedFds
<1>1. UpInv => WatchedFds
  BY DEF UpInv, TableInv
<1> QED
  BY <1>1, TablesInvariant, PTL

\* An id belongs to one user or waits once to be handed out (create_id).
THEOREM IdsNeverShared == Spec => []IdsPartitioned
<1>1. UpInv => IdsPartitioned
  BY DEF UpInv, TableInv
<1> QED
  BY <1>1, TablesInvariant, PTL

\* The table of names agrees with the shells and no name is taken twice
\* (builtin_name, clear_garbage_shells).
THEOREM NamesNeverShared == Spec => []NamesAgree
<1>1. UpInv => NamesAgree
  BY DEF UpInv, TableInv
<1> QED
  BY <1>1, TablesInvariant, PTL

\* The queue holds the users that are dead and no others (deleteuser).
THEOREM QueueExact == Spec => []QueueIsTheDead
<1>1. UpInv => QueueIsTheDead
  BY DEF UpInv, TableInv
<1> QED
  BY <1>1, TablesInvariant, PTL

\* The consistency checks of create_shell and run never stop the server.
THEOREM ChecksNeverFail == Spec => []NeverStops
<1>1. UpInv => NeverStops
  BY DEF UpInv
<1> QED
  BY <1>1, TablesInvariant, PTL

-----------------------------------------------------------------------------
(* The announcements.                                                      *)

\* A step that neither accepts a client nor clears its last reference changes
\* neither the users nor what they were told.
LEMMA SameUsers ==
  ASSUME [Next]_vars, \A c \in Conn : ~Accept(c), ~(ClearGarbage /\ ~StillShared)
  PROVE  Users' = Users /\ census' = census
<1>1. fd2usershell' = fd2usershell /\ census' = census
  <2>1. CASE \E c \in Conn : ClientStep(c)
    BY <2>1 DEF ClientStep, Connect, Type, Close, Reset, network, tables
  <2>2. CASE ClearGarbage
    BY <2>2 DEF ClearGarbage, tables
  <2>3. CASE Select \/ EndScan
    BY <2>3 DEF Select, EndScan, tables
  <2>4. CASE RunLine
    BY <2>4 DEF RunLine, DoQuiet, DoYell, DoTell, DoName, DoExit, DoPipe, DoUnpipe, EndLine, tables
  <2>5. CASE \E fd \in Fd : Serve(fd)
    BY <2>5 DEF Serve, tables
  <2>6. CASE UNCHANGED vars
    BY <2>6 DEF vars, tables
  <2> QED
    BY <2>1, <2>2, <2>3, <2>4, <2>5, <2>6 DEF Next, ServerStep
<1> QED
  BY <1>1 DEF Users

\* Whoever comes is counted, and told how many are there.
LEMMA CensusAccept ==
  ASSUME TableInv, CensusRight, NEW c \in Conn, Accept(c)
  PROVE  CensusRight'
<1>1. Users' = Users \cup {c} /\ c \notin Users /\ Users \subseteq Conn
  BY AcceptInv DEF Users
<1>2. Cardinality(Users') = Cardinality(Users) + 1
  BY <1>1, UsersFinite, FS_AddElement
<1>3. status = "up" /\ \A d \in Users : census[d] = Cardinality(Users)
  BY DEF Accept, At, CensusRight
<1>4. census' = [d \in Conn |-> IF d = c THEN Cardinality(Users) + 1
                                ELSE IF d \in Users THEN census[d] + 1 ELSE 0]
  BY AcceptStep
<1>5. \A d \in Users' : census'[d] = Cardinality(Users) + 1
  BY <1>1, <1>3, <1>4
<1> QED
  BY <1>2, <1>5 DEF CensusRight

\* Whoever leaves is counted out.
LEMMA CensusClear ==
  ASSUME TableInv, CensusRight, ClearGarbage, ~StillShared
  PROVE  CensusRight'
<1>1. Users' = Users \ {c0} /\ c0 \in Users /\ Users \subseteq Conn
  BY ClearStep DEF Users
<1>2. Cardinality(Users') = Cardinality(Users) - 1
  BY <1>1, UsersFinite, FS_RemoveElement
<1>3. status = "up" /\ \A d \in Users : census[d] = Cardinality(Users)
  BY DEF ClearGarbage, CensusRight
<1>4. census' = [c \in Conn |-> IF c \in Users \ {c0} THEN census[c] - 1 ELSE 0]
  BY ClearStep
<1>5. \A d \in Users' : census'[d] = Cardinality(Users) - 1
  BY <1>1, <1>3, <1>4
<1> QED
  BY <1>2, <1>5 DEF CensusRight

\* Each arrival and departure is told once to everyone who is logged in.
THEOREM EveryoneTold == Spec => []CensusRight
<1>1. Init => CensusRight
  BY NobodyAssumption DEF Init, CensusRight, Users
<1>2. UpInv /\ CensusRight /\ [Next]_vars => CensusRight'
  <2> SUFFICES ASSUME UpInv, CensusRight, [Next]_vars PROVE CensusRight'
    OBVIOUS
  <2>0. TableInv
    BY DEF UpInv
  <2>1. CASE \E c \in Conn : Accept(c)
    BY <2>0, <2>1, CensusAccept
  <2>2. CASE ClearGarbage /\ ~StillShared
    BY <2>0, <2>2, CensusClear
  <2>3. CASE (\A c \in Conn : ~Accept(c)) /\ ~(ClearGarbage /\ ~StillShared)
    <3>1. Users' = Users /\ census' = census
      BY <2>3, SameUsers
    <3>2. status' = "up" => status = "up"
      BY DEF Next, ServerStep, ClientStep, Connect, Type, Close, Reset, ClearGarbage, Select, EndScan,
             RunLine, DoQuiet, DoYell, DoTell, DoName, DoExit, DoPipe, DoUnpipe, EndLine, Doing,
             Accept, Serve, At, vars
    <3> QED
      BY <3>1, <3>2 DEF CensusRight
  <2> QED
    BY <2>1, <2>2, <2>3
<1> QED
  BY <1>1, <1>2, TablesInvariant, PTL DEF Spec

-----------------------------------------------------------------------------
(* The tables implement the roster.                                        *)

\* The ids in use, and what the roster says of each.
UsedIds == {j \in 1 .. Len(id2usershell) : id2usershell[j] # Nobody}
Entries == [i \in UsedIds |-> [who |-> id2usershell[i], name |-> id2username[i]]]

\* What the mapping of UserTable reads as here.
LEMMA RosterReading ==
  /\ Roster!Ids = UsedIds
  /\ Roster!Init <=> Entries = [i \in {} |-> NoName]
  /\ \A i : Roster!Leave(i) <=> Entries' = [j \in UsedIds \ {i} |-> Entries[j]]
  /\ \A i, n : Roster!Rename(i, n) <=> /\ \A j \in UsedIds : Entries[j].name # n
                                       /\ Entries' = [Entries EXCEPT ![i].name = n]
  /\ \A c, i : Roster!Join(c, i) <=>
       /\ \A j \in UsedIds : Entries[j].who # c
       /\ i \notin UsedIds
       /\ \A j \in 1 .. i - 1 : j \in UsedIds
       /\ Entries' = [j \in UsedIds \cup {i} |-> IF j = i THEN [who |-> c, name |-> NoName] ELSE Entries[j]]
<1>1. Roster!Ids = UsedIds
  BY DEF Roster!Ids, UsedIds
<1> QED
  BY <1>1 DEF Roster!Init, Roster!Leave, Roster!Rename, Roster!Join, Entries, UsedIds

\* A client that is accepted joins the roster with the lowest free id.
LEMMA AcceptJoins ==
  ASSUME TableInv, NEW c \in Conn, Accept(c)
  PROVE  \E i \in 1 .. Cardinality(UsedIds) + 1 : Roster!Join(c, i)
<1>0. TypeOK /\ IdsPartitioned /\ NamesAgree /\ status = "up" /\ c \notin Users
  BY DEF TableInv, Accept, At, Waiting
<1> DEFINE n == Len(id2usershell)
<1>1. PICK uid \in 1 .. n + 1 :
        /\ uid # n + 1 => id2usershell[uid] = Nobody
        /\ \A i \in 1 .. uid - 1 : i \in 1 .. n /\ id2usershell[i] # Nobody
        /\ id2usershell' = Put(id2usershell, uid, c)
        /\ id2username' = Put(id2username, uid, NoName)
  BY AcceptStep
<1>2. n \in Nat /\ Len(id2username) = n /\ uid \in Nat
  BY <1>0 DEF TypeOK, NamesAgree
<1> DEFINE m == IF uid = n + 1 THEN n + 1 ELSE n
<1>3. /\ Len(id2usershell') = m /\ id2usershell'[uid] = c
      /\ \A j \in 1 .. n : j # uid => id2usershell'[j] = id2usershell[j]
  <2>1. /\ id2usershell \in Seq(Conn \cup {Nobody}) /\ c \in Conn \cup {Nobody}
        /\ id2usershell' = Put(id2usershell, uid, c) /\ uid \in 1 .. Len(id2usershell) + 1
    BY <1>0, <1>1 DEF TypeOK
  <2> QED
    BY ONLY <2>1, PutSeq DEF Put
<1>4. /\ Len(id2username') = m /\ id2username'[uid] = NoName
      /\ \A j \in 1 .. n : j # uid => id2username'[j] = id2username[j]
  <2>1. /\ id2username \in Seq(Name \cup {NoName, NoEntry})
        /\ NoName \in Name \cup {NoName, NoEntry}
        /\ id2username' = Put(id2username, uid, NoName)
        /\ uid \in 1 .. Len(id2username) + 1 /\ Len(id2username) = n
    BY <1>0, <1>1, <1>2 DEF TypeOK
  <2> QED
    BY ONLY <2>1, PutSeq DEF Put
<1>5. uid \in 1 .. m /\ \A j \in 1 .. m : j = uid \/ (j # uid /\ j \in 1 .. n)
  BY <1>2
<1>6. c # Nobody
  BY NobodyAssumption
<1>7. uid \notin UsedIds /\ \A j \in 1 .. uid - 1 : j \in UsedIds
  BY <1>1, <1>2 DEF UsedIds
<1>8. UsedIds' = UsedIds \cup {uid}
  <2>1. ASSUME NEW j PROVE j \in UsedIds' <=> j \in UsedIds \cup {uid}
    BY <1>2, <1>3, <1>5, <1>6 DEF UsedIds
  <2> QED
    BY <2>1
<1>9. \A j \in UsedIds : Entries[j].who # c
  BY <1>0 DEF IdsPartitioned, UsedIds, Entries
<1>10. Entries' = [j \in UsedIds \cup {uid} |-> IF j = uid THEN [who |-> c, name |-> NoName] ELSE Entries[j]]
  <2>1. Entries' = [j \in UsedIds' |-> [who |-> id2usershell'[j], name |-> id2username'[j]]]
    BY DEF Entries
  <2>2. \A j \in UsedIds : /\ j # uid /\ id2usershell'[j] = id2usershell[j] /\ id2username'[j] = id2username[j]
                           /\ Entries[j] = [who |-> id2usershell[j], name |-> id2username[j]]
    BY <1>3, <1>4, <1>7 DEF UsedIds, Entries
  <2> QED
    BY <1>3, <1>4, <1>8, <2>1, <2>2
<1>11. uid \in 1 .. Cardinality(UsedIds) + 1
  <2>1. IsFiniteSet(1 .. n)
    BY <1>2, FS_Interval
  <2>2. IsFiniteSet(UsedIds) /\ Cardinality(UsedIds) \in Nat
    <3>1. UsedIds \subseteq 1 .. n
      BY DEF UsedIds
    <3> QED
      BY <2>1, <3>1, FS_Subset, FS_CardinalityType
  <2>3. Cardinality(1 .. uid - 1) <= Cardinality(UsedIds)
    <3>1. 1 .. uid - 1 \in SUBSET UsedIds
      BY <1>7
    <3> QED
      BY <2>2, <3>1, FS_Subset
  <2>4. Cardinality(1 .. uid - 1) = uid - 1
    <3>1. 1 \in Int /\ uid - 1 \in Int /\ uid >= 1
      BY <1>2
    <3>2. Cardinality(1 .. uid - 1) = IF 1 > uid - 1 THEN 0 ELSE (uid - 1) - 1 + 1
      BY <3>1, FS_Interval
    <3> QED
      BY <3>1, <3>2
  <2> QED
    BY <1>2, <2>2, <2>3, <2>4
<1> QED
  BY <1>7, <1>9, <1>10, <1>11, RosterReading

\* A user that is cleared leaves the roster, name and id together.
LEMMA ClearLeaves ==
  ASSUME TableInv, ClearGarbage, ~StillShared
  PROVE  \E i \in UsedIds : Roster!Leave(i)
<1>0. TypeOK /\ IdsPartitioned /\ NamesAgree /\ status = "up"
  BY DEF TableInv, ClearGarbage
<1> DEFINE n == Len(id2usershell)
<1>1. /\ id0 \in 1 .. n /\ id2usershell[id0] = c0 /\ c0 # Nobody
      /\ id2usershell' = [id2usershell EXCEPT ![id0] = Nobody]
      /\ id2username' = [id2username EXCEPT ![id0] = NoEntry]
  BY <1>0, ClearStep, UserFacts
<1>2. /\ Len(id2usershell') = n /\ id2usershell'[id0] = Nobody
      /\ \A j \in 1 .. n : j # id0 => id2usershell'[j] = id2usershell[j]
  <2>1. id2usershell \in Seq(Conn \cup {Nobody}) /\ Nobody \in Conn \cup {Nobody}
    BY <1>0 DEF TypeOK
  <2> QED
    BY ONLY <1>1, <2>1, ExceptSeq
<1>3. \A j \in 1 .. n : j # id0 => id2username'[j] = id2username[j]
  <2>1. /\ id2username \in Seq(Name \cup {NoName, NoEntry})
        /\ NoEntry \in Name \cup {NoName, NoEntry} /\ Len(id2username) = n
    BY <1>0 DEF TypeOK, NamesAgree
  <2> QED
    BY ONLY <1>1, <2>1, ExceptSeq
<1>4. id0 \in UsedIds /\ UsedIds' = UsedIds \ {id0}
  <2>1. ASSUME NEW j PROVE j \in UsedIds' <=> j \in UsedIds \ {id0}
    BY <1>2 DEF UsedIds
  <2> QED
    BY <1>1, <2>1 DEF UsedIds
<1>5. Entries' = [j \in UsedIds \ {id0} |-> Entries[j]]
  <2>1. Entries' = [j \in UsedIds' |-> [who |-> id2usershell'[j], name |-> id2username'[j]]]
    BY DEF Entries
  <2>2. \A j \in UsedIds \ {id0} : /\ id2usershell'[j] = id2usershell[j] /\ id2username'[j] = id2username[j]
                                   /\ Entries[j] = [who |-> id2usershell[j], name |-> id2username[j]]
    BY <1>2, <1>3 DEF UsedIds, Entries
  <2> QED
    BY <1>4, <2>1, <2>2
<1> QED
  BY <1>4, <1>5, RosterReading

\* A name that is taken is a name of the roster.
LEMMA NameRenames ==
  ASSUME TableInv, DoName, ~IsSame(task.name)
  PROVE  \E i \in UsedIds : \E nm \in Name \cup {NoName} : Roster!Rename(i, nm)
<1>0. TypeOK /\ IdsPartitioned /\ NamesAgree
  BY DEF TableInv
<1> DEFINE n   == Len(id2usershell)
           uid == shell[who].uid
           nm  == task.name
<1>1. /\ status = "up" /\ who \in Users /\ task \in Task
      /\ id2usershell' = id2usershell
      /\ id2username' = [id2username EXCEPT ![uid] = nm]
  BY DoingFacts DEF DoName
<1>2. nm \in Name \cup {NoName}
  BY <1>1 DEF Task
<1>3. uid \in 1 .. n /\ id2usershell[uid] = who /\ who # Nobody /\ Len(id2username) = n
  BY <1>0, <1>1, UserFacts DEF NamesAgree
<1>4. id2username'[uid] = nm /\ \A j \in 1 .. n : j # uid => id2username'[j] = id2username[j]
  <2>1. /\ id2username \in Seq(Name \cup {NoName, NoEntry})
        /\ nm \in Name \cup {NoName, NoEntry} /\ uid \in 1 .. Len(id2username)
    BY <1>0, <1>2, <1>3 DEF TypeOK
  <2> QED
    BY ONLY <1>1, <1>3, <2>1, ExceptSeq
<1>5. uid \in UsedIds /\ UsedIds' = UsedIds
  BY <1>1, <1>3 DEF UsedIds
<1>6. \A j \in UsedIds : Entries[j].name # nm
  BY <1>3 DEF IsSame, UsedIds, Entries
<1>7. Entries' = [Entries EXCEPT ![uid].name = nm]
  <2>1. Entries' = [j \in UsedIds' |-> [who |-> id2usershell'[j], name |-> id2username'[j]]]
    BY DEF Entries
  <2>2. Entries = [j \in UsedIds |-> [who |-> id2usershell[j], name |-> id2username[j]]]
    BY DEF Entries
  <2>3. [Entries EXCEPT ![uid].name = nm]
          = [j \in UsedIds |-> IF j = uid THEN [Entries[uid] EXCEPT !.name = nm] ELSE Entries[j]]
    BY <2>2
  <2>4. [Entries[uid] EXCEPT !.name = nm] = [who |-> id2usershell[uid], name |-> nm]
    BY <1>5, <2>2
  <2>5. \A j \in UsedIds : j # uid => id2username'[j] = id2username[j]
    BY <1>4 DEF UsedIds
  <2> HIDE DEF uid, nm, n
  <2> QED
    BY <1>1, <1>4, <1>5, <2>1, <2>2, <2>3, <2>4, <2>5
<1> QED
  BY <1>2, <1>5, <1>6, <1>7, RosterReading

\* Every other step leaves the roster as it is.
LEMMA SameRoster ==
  ASSUME [Next]_vars, \A c \in Conn : ~Accept(c), ~(ClearGarbage /\ ~StillShared),
         ~(DoName /\ ~IsSame(task.name))
  PROVE  Entries' = Entries
<1>1. id2usershell' = id2usershell /\ id2username' = id2username
  <2>1. CASE \E c \in Conn : ClientStep(c)
    BY <2>1 DEF ClientStep, Connect, Type, Close, Reset, network, tables
  <2>2. CASE ClearGarbage
    BY <2>2 DEF ClearGarbage, tables
  <2>3. CASE Select \/ EndScan
    BY <2>3 DEF Select, EndScan, tables
  <2>4. CASE RunLine
    BY <2>4 DEF RunLine, DoQuiet, DoYell, DoTell, DoName, DoExit, DoPipe, DoUnpipe, EndLine, tables
  <2>5. CASE \E fd \in Fd : Serve(fd)
    BY <2>5 DEF Serve, tables
  <2>6. CASE UNCHANGED vars
    BY <2>6 DEF vars, tables
  <2> QED
    BY <2>1, <2>2, <2>3, <2>4, <2>5, <2>6 DEF Next, ServerStep
<1> QED
  BY <1>1 DEF Entries, UsedIds

\* The four tables of the server implement the roster of Registry: an id and a
\* name are given, changed and taken back together (create_shell, builtin_name,
\* clear_garbage_shells).
THEOREM TablesAreARoster == Spec => KeepsRoster
<1>1. Init => Roster!Init
  <2> SUFFICES ASSUME Init PROVE Roster!Init
    OBVIOUS
  <2>1. UsedIds = {}
    BY DEF Init, UsedIds
  <2>2. Entries = [i \in {} |-> NoName]
    BY <2>1 DEF Entries
  <2> QED
    BY <2>2, RosterReading
<1>2. UpInv /\ [Next]_vars => Roster!Next \/ Entries' = Entries
  <2> SUFFICES ASSUME UpInv, [Next]_vars PROVE Roster!Next \/ Entries' = Entries
    OBVIOUS
  <2>0. TableInv /\ Roster!Ids = UsedIds
    BY RosterReading DEF UpInv
  <2>1. CASE \E c \in Conn : Accept(c)
    <3>1. PICK c \in Conn : Accept(c)
      BY <2>1
    <3>2. PICK i \in 1 .. Cardinality(UsedIds) + 1 : Roster!Join(c, i)
      BY <2>0, <3>1, AcceptJoins
    <3>3. Roster!Cardinality(UsedIds) = Cardinality(UsedIds)
      BY Zenon DEF Cardinality, Roster!Cardinality
    <3> QED
      BY <2>0, <3>2, <3>3 DEF Roster!Next
  <2>2. CASE ClearGarbage /\ ~StillShared
    BY <2>0, <2>2, ClearLeaves DEF Roster!Next
  <2>3. CASE DoName /\ ~IsSame(task.name)
    BY <2>0, <2>3, NameRenames DEF Roster!Next
  <2> QED
    BY <2>1, <2>2, <2>3, SameRoster
<1>3. UpInv /\ [Next]_vars => [Roster!Next]_Entries
  BY <1>2
<1> QED
  BY <1>1, <1>3, TablesInvariant, PTL DEF Spec, KeepsRoster, Roster!Spec, Entries, UsedIds
=============================================================================
