----------------------------- MODULE TotProofs -----------------------------
(***************************************************************************)
(* Tot vends strictly increasing numbers for any number of jobs, clients,  *)
(* attempts and crashes, as long as saves succeed and no operator sets a   *)
(* number. The argument is IInv of module Tot: a handler saves under the   *)
(* mutex before it answers, so that the file is never behind a number that *)
(* was vended, and memory is never behind the file. The numbers are also   *)
(* beyond those of the builds in the bucket, even if saves fail, as long   *)
(* as the bucket could be read.                                            *)
(***************************************************************************)
EXTENDS Tot, TLAPS

\* Initially nothing is stored and nothing vended.
LEMMA InitInv == Init => Consistent
<1> SUFFICES ASSUME Init PROVE Consistent
  OBVIOUS
<1>1. TypeOK
  BY TotAssumption DEF Init, TypeOK, Stored, Absent, Free, Held
<1>2. VendedSaved /\ Ordered
  BY DEF Init, VendedSaved, Ordered
<1> QED
  BY <1>1, <1>2 DEF Consistent, Init, Free, Absent

\* A step that changes neither numbers, lock nor what was vended keeps Consistent.
LEMMA FrameInv ==
    ASSUME Consistent, TypeOK', UNCHANGED <<number, tmp, file, lock, vended>>
    PROVE  Consistent'
<1>1. VendedSaved' /\ Ordered'
  BY DEF Consistent, VendedSaved, Ordered
<1> QED
  BY <1>1 DEF Consistent

\* Stored numbers are integers.
LEMMA StoredInt ==
    ASSUME TypeOK, NEW j \in Job
    PROVE  number[j] \in Int /\ file[j] \in Int
<1>1. number[j] \in Stored /\ file[j] \in Stored
  BY DEF TypeOK
<1> QED
  BY <1>1 DEF Stored, Absent

\* The mutex record of a request that is being served.
LEMMA LockHeld ==
    ASSUME Consistent, lock.pc # "free"
    PROVE  /\ lock # Free
           /\ lock \in Held
           /\ lock.job \in Job
           /\ lock.by \subseteq Request
BY DEF Consistent, TypeOK, Free, Held

\* The steps of the store's handlers and of an operator keep the types.
LEMMA StoreTypes ==
    ASSUME TypeOK,
           \/ \E r \in Request : Vend(r)
           \/ \E j \in Job : \E n \in PostValues : Set(j, n)
           \/ Write \/ Rename \/ Reply \/ Restart
    PROVE  TypeOK'
<1>1. ASSUME NEW r \in Request, Vend(r) PROVE TypeOK'
  <2> DEFINE j == JobOf[r[1]]
  <2>1. j \in Job
    BY TotAssumption DEF Request
  <2>2. PICK n \in Previous(j) : number' = [number EXCEPT ![j] = n + 1]
    BY <1>1 DEF Vend
  <2>3. n \in Nat
    BY <2>1, TotAssumption DEF Previous, TypeOK, Stored, Absent
  <2>4. number' \in [Job -> Stored]
    BY <2>1, <2>2, <2>3 DEF TypeOK, Stored
  <2>5. lock' \in Held
    BY <1>1, <2>1 DEF Vend, Held
  <2>6. mishaps' \subseteq {"save", "post", "fallback"}
    BY <1>1 DEF Vend, TypeOK
  <2>7. lock'.job = j /\ number'[j] \in Nat
    BY <1>1, <2>1, <2>2, <2>3 DEF Vend, TypeOK
  <2> QED
    BY <1>1, <2>4, <2>5, <2>6, <2>7 DEF Vend, TypeOK
<1>2. ASSUME NEW j \in Job, NEW n \in PostValues, Set(j, n) PROVE TypeOK'
  <2>1. number' \in [Job -> Stored] /\ lock' \in Held /\ posts' \in Nat
    BY <1>2, TotAssumption DEF Set, TypeOK, Stored, Held
  <2>2. lock'.job = j /\ number'[j] \in Nat
    BY <1>2, TotAssumption DEF Set, TypeOK
  <2> QED
    BY <1>2, <2>1, <2>2 DEF Set, TypeOK
<1>3. CASE Write \/ Rename
  <2>1. lock \in Held /\ lock' \in Held
    <3>1. lock \in Held
      BY <1>3 DEF Write, Rename, TypeOK, Free
    <3>2. \E s \in {"rename", "reply"} : lock' = [lock EXCEPT !.pc = s]
      BY <1>3 DEF Write, Rename
    <3> QED
      BY <3>1, <3>2 DEF Held
  <2>2. mishaps' \subseteq {"save", "post", "fallback"}
    BY <1>3 DEF Write, Rename, TypeOK
  <2>3. tmp' \in [Job -> Stored] /\ file' \in [Job -> Stored]
    BY <1>3 DEF Write, Rename, TypeOK
  <2>4. lock'.job = lock.job /\ number[lock.job] \in Nat
    BY <1>3, <2>1 DEF Write, Rename, TypeOK, Held, Free
  <2> QED
    BY <1>3, <2>1, <2>2, <2>3, <2>4 DEF Write, Rename, TypeOK
<1>4. CASE Reply
  <2>1. lock \in Held
    BY <1>4 DEF Reply, TypeOK, Held, Free
  <2>2. lock.job \in Job /\ lock.by \subseteq Request /\ number[lock.job] \in Nat
    BY <1>4, <2>1 DEF Held, Reply, TypeOK, Free
  <2>3. calls' \in [Client -> [pc : {"idle", "asking", "done", "failed"}, try : 0..MaxTries]]
    <3>1. CASE UNCHANGED calls
      BY <3>1 DEF TypeOK
    <3>2. ASSUME NEW r \in lock.by, calls' = [calls EXCEPT ![r[1]].pc = "done"]
          PROVE  calls' \in [Client -> [pc : {"idle", "asking", "done", "failed"}, try : 0..MaxTries]]
      <4>1. r[1] \in Client
        BY <2>2 DEF Request
      <4> QED
        BY <3>2, <4>1 DEF TypeOK
    <3> QED
      BY <1>4, <3>1, <3>2 DEF Reply
  <2> QED
    BY <1>4, <2>2, <2>3 DEF Reply, TypeOK
<1>5. CASE Restart
  BY <1>5 DEF Restart, TypeOK
<1> QED
  BY <1>1, <1>2, <1>3, <1>4, <1>5

\* vend: the number in memory becomes greater than all vended numbers.
LEMMA VendInv ==
    ASSUME Consistent, NEW r \in Request, Vend(r)
    PROVE  Consistent'
<1> DEFINE j == JobOf[r[1]]
<1>1. j \in Job
  BY TotAssumption DEF Request
<1>2. PICK n \in Previous(j) : number' = [number EXCEPT ![j] = n + 1]
  BY DEF Vend
<1>3. lock = Free /\ number = file /\ UNCHANGED <<tmp, file, vended, calls>>
  BY DEF Vend, Consistent
<1>4. lock' = [pc |-> "write", job |-> j, by |-> {r}]
  BY DEF Vend
<1>5. n \in Nat /\ n >= number[j]
  BY <1>1, TotAssumption DEF Previous, Consistent, TypeOK, Stored, Absent
<1>6. TypeOK'
  BY StoreTypes DEF Consistent
<1>7. VendedSaved' /\ Ordered'
  BY <1>3 DEF Consistent, VendedSaved, Ordered
<1>8. \A k \in Job : file'[k] <= number'[k]
  BY <1>1, <1>2, <1>3, <1>5 DEF Consistent, TypeOK, Stored, Absent
<1>9. lock' # Free
  BY <1>4 DEF Free
<1>10. \A i \in DOMAIN vended'[j] : vended'[j][i] < number'[j]
  <2> SUFFICES ASSUME NEW i \in DOMAIN vended[j]
               PROVE  vended[j][i] < n + 1
    BY <1>1, <1>2, <1>3 DEF Consistent, TypeOK
  <2>1. vended[j][i] <= number[j] /\ vended[j][i] \in Nat /\ number[j] \in Int
    BY <1>1, <1>3 DEF Consistent, VendedSaved, TypeOK, Stored, Absent
  <2> QED
    BY <2>1, <1>5
<1>11. number'[j] \in Nat /\ \A k \in Job \ {j} : number'[k] = file'[k]
  BY <1>1, <1>2, <1>3, <1>5 DEF Consistent, TypeOK
<1> QED
  BY <1>1, <1>4, <1>6, <1>7, <1>8, <1>9, <1>10, <1>11 DEF Consistent

\* save, first step: the temporary file has what memory has.
LEMMA WriteInv ==
    ASSUME Consistent, Write, "save" \notin mishaps'
    PROVE  Consistent'
<1>1. /\ lock.pc = "write" /\ tmp' = number
      /\ lock' = [lock EXCEPT !.pc = "rename"]
      /\ UNCHANGED <<number, file, vended, requests, calls, mishaps, posts, crashes>>
  BY DEF Write
<1>2. lock # Free /\ lock \in Held
  BY <1>1, LockHeld
<1>3. /\ lock' \in Held /\ lock'.pc = "rename"
      /\ lock'.job = lock.job /\ lock'.by = lock.by
  BY <1>1, <1>2 DEF Held
<1>4. lock' # Free
  BY <1>3 DEF Free
<1>5. TypeOK'
  BY StoreTypes DEF Consistent
<1>6. VendedSaved' /\ Ordered'
  BY <1>1 DEF Consistent, VendedSaved, Ordered
<1> QED
  BY <1>1, <1>2, <1>3, <1>4, <1>5, <1>6 DEF Consistent

\* save, second step: the file has what memory has.
LEMMA RenameInv ==
    ASSUME Consistent, Rename, "save" \notin mishaps'
    PROVE  Consistent'
<1>1. /\ lock.pc = "rename" /\ file' = tmp
      /\ lock' = [lock EXCEPT !.pc = "reply"]
      /\ UNCHANGED <<number, tmp, vended, requests, calls, mishaps, posts, crashes>>
  BY DEF Rename
<1>2. lock # Free /\ lock \in Held
  BY <1>1, LockHeld
<1>3. /\ lock' \in Held /\ lock'.pc = "reply"
      /\ lock'.job = lock.job /\ lock'.by = lock.by
  BY <1>1, <1>2 DEF Held
<1>4. lock' # Free
  BY <1>3 DEF Free
<1>5. file' = number
  BY <1>1, <1>2 DEF Consistent
<1>6. TypeOK'
  BY StoreTypes DEF Consistent
<1>7. VendedSaved'
  <2> SUFFICES ASSUME NEW j \in Job, NEW i \in DOMAIN vended[j]
               PROVE  vended[j][i] <= number[j]
    BY <1>1, <1>5 DEF VendedSaved
  <2>1. vended[j][i] <= file[j] /\ file[j] <= number[j]
    BY DEF Consistent, VendedSaved
  <2>2. vended[j][i] \in Nat /\ file[j] \in Int /\ number[j] \in Int
    BY DEF Consistent, TypeOK, Stored, Absent
  <2> QED
    BY <2>1, <2>2
<1>8. Ordered'
  BY <1>1 DEF Consistent, Ordered
<1>9. \A j \in Job : file'[j] <= number'[j]
  <2>1. \A j \in Job : number[j] \in Int
    BY StoredInt DEF Consistent
  <2> QED
    BY <2>1, <1>1, <1>5
<1> QED
  BY <1>1, <1>2, <1>3, <1>4, <1>5, <1>6, <1>7, <1>8, <1>9 DEF Consistent

\* What Append does to a sequence of numbers.
LEMMA Appended ==
    ASSUME NEW s \in Seq(Nat), NEW n \in Nat
    PROVE  /\ DOMAIN Append(s, n) = DOMAIN s \cup {Len(s) + 1}
           /\ Append(s, n)[Len(s) + 1] = n
           /\ \A i \in DOMAIN s :
                 /\ Append(s, n)[i] = s[i]
                 /\ i \in Nat /\ i < Len(s) + 1
                 /\ s[i] \in Nat
<1>1. Len(s) \in Nat /\ DOMAIN s = 1..Len(s)
  OBVIOUS
<1>2. DOMAIN Append(s, n) = 1..Len(s) + 1
  OBVIOUS
<1>3. Append(s, n)[Len(s) + 1] = n
  OBVIOUS
<1>4. \A i \in 1..Len(s) : Append(s, n)[i] = s[i] /\ s[i] \in Nat
  OBVIOUS
<1> QED
  BY <1>1, <1>2, <1>3, <1>4

\* The answer: the vended number is greater than those before, and saved.
LEMMA ReplyInv ==
    ASSUME Consistent, Reply
    PROVE  Consistent'
<1> DEFINE j == lock.job
           n == number[j]
<1>1. lock.pc = "reply" /\ lock' = Free
      /\ UNCHANGED <<number, tmp, file, requests, mishaps, posts, crashes>>
  BY DEF Reply
<1>2. lock # Free /\ j \in Job /\ lock.by \subseteq Request
  BY <1>1, LockHeld
<1>3. /\ file = number /\ n \in Nat
      /\ \A i \in DOMAIN vended[j] : vended[j][i] < n
  BY <1>1, <1>2 DEF Consistent, TypeOK
<1>4. vended' = [vended EXCEPT ![j] = Append(@, n)]
  BY <1>2 DEF Reply, Consistent
<1>5. vended \in [Job -> Seq(Nat)]
  BY DEF Consistent, TypeOK
<1>6. vended'[j] = Append(vended[j], n) /\ vended[j] \in Seq(Nat)
  BY <1>2, <1>4, <1>5
<1>7. \A k \in Job \ {j} : vended'[k] = vended[k]
  BY <1>4, <1>5
<1>8. TypeOK'
  BY StoreTypes DEF Consistent
<1>9. /\ DOMAIN vended'[j] = DOMAIN vended[j] \cup {Len(vended[j]) + 1}
      /\ vended'[j][Len(vended[j]) + 1] = n
      /\ \A i \in DOMAIN vended[j] :
            /\ vended'[j][i] = vended[j][i]
            /\ i \in Nat /\ i < Len(vended[j]) + 1
            /\ vended[j][i] \in Nat
  BY <1>3, <1>6, Appended
<1>10. VendedSaved'
  <2> SUFFICES ASSUME NEW k \in Job, NEW i \in DOMAIN vended'[k]
               PROVE  vended'[k][i] <= number[k]
    BY <1>1, <1>3 DEF VendedSaved
  <2>1. CASE k = j
    BY <2>1, <1>3, <1>9
  <2>2. CASE k # j
    BY <2>2, <1>3, <1>7 DEF Consistent, VendedSaved
  <2> QED
    BY <2>1, <2>2
<1>11. Ordered'
  <2> SUFFICES ASSUME NEW k \in Job, NEW i \in DOMAIN vended'[k],
                      NEW l \in DOMAIN vended'[k], i < l
               PROVE  vended'[k][i] < vended'[k][l]
    BY DEF Ordered
  <2>1. CASE k # j
    BY <2>1, <1>7 DEF Consistent, Ordered
  <2>2. CASE k = j
    <3>1. i \in DOMAIN vended[j]
      BY <2>2, <1>9
    <3>2. CASE l \in DOMAIN vended[j]
      BY <2>2, <3>1, <3>2, <1>2, <1>9 DEF Consistent, Ordered
    <3>3. CASE l = Len(vended[j]) + 1
      BY <2>2, <3>1, <3>3, <1>3, <1>9
    <3> QED
      BY <2>2, <3>2, <3>3, <1>9
  <2> QED
    BY <2>1, <2>2
<1> QED
  BY <1>1, <1>3, <1>8, <1>10, <1>11 DEF Consistent

\* A crash loses at most a number that was not vended.
LEMMA RestartInv ==
    ASSUME Consistent, Restart
    PROVE  Consistent'
<1>1. /\ number' = file /\ lock' = Free /\ requests' = {}
      /\ crashes' = crashes + 1
      /\ UNCHANGED <<tmp, file, calls, vended, mishaps, posts>>
  BY DEF Restart
<1>2. TypeOK'
  BY StoreTypes DEF Consistent
<1>3. VendedSaved' /\ Ordered'
  BY <1>1 DEF Consistent, VendedSaved, Ordered
<1>4. \A j \in Job : file'[j] <= number'[j]
  <2>1. \A j \in Job : file[j] \in Int
    BY StoredInt DEF Consistent
  <2> QED
    BY <2>1, <1>1
<1> QED
  BY <1>1, <1>2, <1>3, <1>4 DEF Consistent

\* The clients' steps keep the types and touch nothing of the store.
LEMMA ClientTypes ==
    ASSUME TypeOK, NEW c \in Client, Ask(c) \/ AskFails(c) \/ GiveUp(c)
    PROVE  TypeOK' /\ UNCHANGED <<number, tmp, file, lock, vended, mishaps>>
<1>1. CASE Ask(c)
  <2>1. calls[c].try \in 0..MaxTries /\ calls[c].try < MaxTries
    BY <1>1 DEF Ask, TypeOK
  <2>2. calls[c].try + 1 \in 1..MaxTries
    BY <2>1, TotAssumption
  <2>3. requests' \subseteq Request
    BY <1>1, <2>2 DEF Ask, TypeOK, Request
  <2> QED
    BY <1>1, <2>2, <2>3 DEF Ask, TypeOK
<1>2. CASE AskFails(c) \/ GiveUp(c)
  <2>1. UNCHANGED <<number, tmp, file, lock, requests, vended, mishaps, posts, crashes>>
    BY <1>2 DEF AskFails, GiveUp
  <2>2. calls' \in [Client -> [pc : {"idle", "asking", "done", "failed"}, try : 0..MaxTries]]
    <3>1. CASE calls' = [calls EXCEPT ![c].pc = "idle"]
      BY <3>1 DEF TypeOK
    <3>2. CASE calls' = [calls EXCEPT ![c].pc = "failed"]
      BY <3>2 DEF TypeOK
    <3> QED
      BY <1>2, <3>1, <3>2 DEF AskFails, GiveUp
  <2> QED
    BY <2>1, <2>2 DEF TypeOK
<1> QED
  BY <1>1, <1>2

\* The steps of the store keep every number beyond the bucket.
LEMMA BeyondInv ==
    ASSUME TypeOK, BeyondFallback, FallbackKnown',
           \/ \E r \in Request : Vend(r)
           \/ Write \/ Rename \/ Reply \/ Restart
    PROVE  BeyondFallback'
<1>1. ASSUME NEW r \in Request, Vend(r) PROVE BeyondFallback'
  <2> DEFINE j == JobOf[r[1]]
  <2>1. j \in Job
    BY TotAssumption DEF Request
  <2>2. PICK n \in Previous(j) :
           /\ number' = [number EXCEPT ![j] = n + 1]
           /\ mishaps' = IF n < Fallback[j] THEN mishaps \cup {"fallback"} ELSE mishaps
    BY <1>1 DEF Vend
  <2>3. n \in Nat /\ Fallback[j] \in Nat
    BY <2>1, TotAssumption DEF Previous, TypeOK, Stored, Absent
  <2>4. n + 1 > Fallback[j]
    BY <2>2, <2>3 DEF FallbackKnown
  <2>5. \A k \in Job : number'[k] = IF k = j THEN n + 1 ELSE number[k]
    BY <2>2 DEF TypeOK
  <2>6. UNCHANGED <<tmp, file, vended>>
    BY <1>1 DEF Vend
  <2> QED
    BY <2>4, <2>5, <2>6 DEF BeyondFallback
<1>2. CASE Write \/ Rename \/ Restart
  <2>1. number' \in {number, file} /\ tmp' \in {tmp, number} /\ file' \in {file, tmp} /\ UNCHANGED vended
    BY <1>2 DEF Write, Rename, Restart
  <2> QED
    BY <2>1 DEF BeyondFallback
<1>3. CASE Reply
  <2> DEFINE j == lock.job
  <2>1. lock # Free /\ lock \in Held /\ UNCHANGED <<number, tmp, file>>
    BY <1>3 DEF Reply, TypeOK, Free, Held
  <2>2. j \in Job /\ number[j] \in Nat
    BY <2>1 DEF Held, TypeOK
  <2>3. number[j] > Fallback[j]
    BY <2>2 DEF BeyondFallback, Absent
  <2>4. vended \in [Job -> Seq(Nat)] /\ vended[j] \in Seq(Nat)
    BY <2>2 DEF TypeOK
  <2>5. vended' = vended \/ vended' = [vended EXCEPT ![j] = Append(vended[j], number[j])]
    BY <1>3 DEF Reply
  <2>6. ASSUME NEW k \in Job, NEW i \in DOMAIN vended'[k] PROVE vended'[k][i] > Fallback[k]
    <3>1. CASE vended'[k] = vended[k]
      BY <3>1, <2>6 DEF BeyondFallback
    <3>2. CASE k = j /\ vended'[k] = Append(vended[j], number[j])
      BY <3>2, <2>2, <2>3, <2>4, <2>6, Appended DEF BeyondFallback
    <3> QED
      BY <2>4, <2>5, <3>1, <3>2
  <2> QED
    BY <2>1, <2>6 DEF BeyondFallback
<1> QED
  BY <1>1, <1>2, <1>3

\* What every step keeps: the types, and the store's consistency until a save
\* fails or an operator sets a number.
LEMMA NextConsistent ==
    ASSUME IInv, [Next]_vars
    PROVE  TypeOK' /\ (Sound' => Consistent')
<1>1. CASE UNCHANGED vars
  <2>1. TypeOK' /\ (Sound' => Sound)
    BY <1>1 DEF vars, IInv, TypeOK, Sound
  <2>2. Sound' => Consistent'
    BY <1>1, <2>1, FrameInv DEF vars, IInv
  <2> QED
    BY <2>1, <2>2 DEF IInv
<1>2. ASSUME NEW c \in Client, Ask(c) \/ AskFails(c) \/ GiveUp(c)
      PROVE  TypeOK' /\ (Sound' => Consistent')
  <2>1. TypeOK' /\ UNCHANGED <<number, tmp, file, lock, vended, mishaps>>
    BY <1>2, ClientTypes DEF IInv
  <2>2. Sound' => Consistent'
    BY <2>1, FrameInv DEF IInv, Sound
  <2> QED
    BY <2>1, <2>2 DEF IInv
<1>3. ASSUME NEW r \in Request, Vend(r) PROVE TypeOK' /\ (Sound' => Consistent')
  <2>1. TypeOK'
    BY <1>3, StoreTypes DEF IInv
  <2>2. Sound' => Sound
    BY <1>3 DEF Vend, Sound
  <2> QED
    BY <1>3, <2>1, <2>2, VendInv DEF IInv
<1>4. ASSUME NEW j \in Job, NEW n \in PostValues, Set(j, n) PROVE TypeOK' /\ (Sound' => Consistent')
  <2>1. TypeOK'
    BY <1>4, StoreTypes DEF IInv
  <2>2. ~Sound'
    BY <1>4 DEF Set, Sound
  <2> QED
    BY <2>1, <2>2 DEF IInv
<1>5. CASE Write \/ Rename
  <2>1. TypeOK'
    BY <1>5, StoreTypes DEF IInv
  <2>2. Sound' => Sound /\ "save" \notin mishaps'
    BY <1>5 DEF Write, Rename, Sound
  <2> QED
    BY <1>5, <2>1, <2>2, WriteInv, RenameInv DEF IInv
<1>6. CASE Reply \/ Restart
  <2>1. TypeOK'
    BY <1>6, StoreTypes DEF IInv
  <2>2. Sound' => Sound
    BY <1>6 DEF Reply, Restart, Sound
  <2> QED
    BY <1>6, <2>1, <2>2, ReplyInv, RestartInv DEF IInv
<1> QED
  BY <1>1, <1>2, <1>3, <1>4, <1>5, <1>6 DEF Next, Done

\* What every step keeps: numbers beyond the bucket, until it is out of reach
\* or an operator sets a number.
LEMMA NextBeyond ==
    ASSUME IInv, [Next]_vars, FallbackKnown'
    PROVE  BeyondFallback'
<1>1. CASE UNCHANGED <<number, tmp, file, vended, mishaps>>
  BY <1>1 DEF IInv, FallbackKnown, BeyondFallback
<1>2. CASE UNCHANGED vars \/ \E c \in Client : Ask(c) \/ AskFails(c) \/ GiveUp(c)
  BY <1>1, <1>2, ClientTypes DEF vars, IInv
<1>3. ASSUME NEW j \in Job, NEW n \in PostValues, Set(j, n) PROVE FALSE
  BY <1>3 DEF Set, FallbackKnown
<1>4. CASE (\E r \in Request : Vend(r)) \/ Write \/ Rename \/ Reply \/ Restart
  <2>1. FallbackKnown
    BY <1>4 DEF Vend, Write, Rename, Reply, Restart, FallbackKnown
  <2> QED
    BY <1>4, <2>1, BeyondInv DEF IInv
<1> QED
  BY <1>2, <1>3, <1>4 DEF Next, Done

\* The invariant of tot, whatever the clients, crashes and failures: until a
\* save fails or an operator sets a number, what is vended is saved, memory is
\* never behind the file, and a handler's number is new (vend, save, newStore).
THEOREM StoreInvariant == Spec => []IInv
<1>1. Init => IInv
  <2>1. ASSUME Init, NEW j \in Job
        PROVE  /\ number[j] = Absent /\ tmp[j] = Absent /\ file[j] = Absent
               /\ DOMAIN vended[j] = {}
    BY <2>1 DEF Init
  <2> QED
    BY <2>1, InitInv DEF IInv, Consistent, BeyondFallback
<1>2. IInv /\ [Next]_vars => IInv'
  BY NextConsistent, NextBeyond DEF IInv
<1> QED
  BY <1>1, <1>2, PTL DEF Spec

\* Tot vends strictly increasing numbers for each job, across crashes and
\* concurrent requests, for any number of them (vend).
THEOREM VendsIncrementing == Spec => []Incrementing
<1>1. IInv => Incrementing
  BY DEF IInv, Incrementing, Consistent
<1> QED
  BY <1>1, StoreInvariant, PTL

\* Tot never vends the number of a build that is in the bucket already, also
\* when saves fail and after any number of crashes, as long as the bucket could
\* be read and no operator has set a number (fallbackHandler.get, vend).
THEOREM VendsAfterFallback == Spec => []AfterFallback
<1>1. IInv => AfterFallback
  BY DEF IInv, AfterFallback, FallbackKnown, BeyondFallback
<1> QED
  BY <1>1, StoreInvariant, PTL
=============================================================================
