-------------------------------- MODULE Tot --------------------------------
(***************************************************************************)
(* Tot (cmd/tot/main.go) vends build numbers over HTTP, and GetBuildID     *)
(* (pjutil/tot.go) is the client of plank, pipeline and jenkins-operator.  *)
(* The store keeps the last number of each job in memory and in a file it  *)
(* replaces by rename. A handler holds the store's mutex from reading the  *)
(* last number to the end of the save; tot may crash at any point of it.   *)
(***************************************************************************)
EXTENDS Integers, Sequences

CONSTANTS
    Job,            \* job names
    Client,         \* the calls of GetBuildID
    JobOf,          \* the job each call asks a number for
    Fallback,       \* the latest build of each job in the GCS bucket, or 0
    PostValues,     \* numbers an operator may POST
    SavesFail,      \* TRUE: writing or renaming the file may fail
    FallbackFails,  \* TRUE: the GCS bucket may be out of reach
    MaxTries,       \* the attempts of GetBuildID: 10 in the code
    MaxPosts,       \* bound: POSTs
    MaxCrashes      \* bound: crashes of tot

ASSUME TotAssumption ==
    /\ JobOf \in [Client -> Job]
    /\ Fallback \in [Job -> Nat]
    /\ PostValues \subseteq Nat
    /\ {SavesFail, FallbackFails} \subseteq BOOLEAN
    /\ MaxTries \in Nat \ {0}
    /\ {MaxPosts, MaxCrashes} \subseteq Nat

VARIABLES
    number,   \* store.Number; Absent for a job without an entry
    tmp,      \* the temporary file
    file,     \* the file at storagePath
    lock,     \* the request whose handler holds the mutex, or Free
    requests, \* requests that tot has accepted and not answered
    calls,    \* the state of each GetBuildID
    vended,   \* the numbers vended for each job, in order
    mishaps,  \* what has happened so far of: "save" failed, operator's "post",
              \* "fallback" out of reach
    posts, crashes

vars == <<number, tmp, file, lock, requests, calls, vended, mishaps, posts, crashes>>

Absent == -1
Stored == Nat \cup {Absent}

Request == Client \X (1..MaxTries)
Free == [pc |-> "free"]
Held == [pc : {"write", "rename", "reply"}, job : Job, by : SUBSET Request]

Init ==
    /\ number = [j \in Job |-> Absent]
    /\ tmp = number
    /\ file = number
    /\ lock = Free
    /\ requests = {}
    /\ calls = [c \in Client |-> [pc |-> "idle", try |-> 0]]
    /\ vended = [j \in Job |-> << >>]
    /\ mishaps = {}
    /\ posts = 0
    /\ crashes = 0

-----------------------------------------------------------------------------
(***************************************************************************)
(* GetBuildID.                                                             *)
(***************************************************************************)

\* Mutant: the attempts are not counted.
AskUncounted(c) ==
    /\ calls[c].pc = "idle"
    /\ calls' = [calls EXCEPT ![c] = [pc |-> "asking", try |-> 1]]
    /\ requests' \in {requests, requests \cup {<<c, 1>>}}
    /\ UNCHANGED <<number, tmp, file, lock, vended, mishaps, posts, crashes>>

\* The next attempt: the GET reaches tot, or does not.
Ask(c) ==
    LET try == calls[c].try + 1 IN
    /\ calls[c].pc = "idle"
    /\ calls[c].try < MaxTries
    /\ calls' = [calls EXCEPT ![c] = [pc |-> "asking", try |-> try]]
    /\ requests' \in {requests, requests \cup {<<c, try>>}}
    /\ UNCHANGED <<number, tmp, file, lock, vended, mishaps, posts, crashes>>

\* The attempt fails: no answer, or one with an error status.
AskFails(c) ==
    /\ calls[c].pc = "asking"
    /\ calls' = [calls EXCEPT ![c].pc = "idle"]
    /\ UNCHANGED <<number, tmp, file, lock, requests, vended, mishaps, posts, crashes>>

\* All attempts are used up, or the body of an answer cannot be read.
GiveUp(c) ==
    /\ \/ calls[c].pc = "idle" /\ calls[c].try = MaxTries
       \/ calls[c].pc = "asking"
    /\ calls' = [calls EXCEPT ![c].pc = "failed"]
    /\ UNCHANGED <<number, tmp, file, lock, requests, vended, mishaps, posts, crashes>>

-----------------------------------------------------------------------------
(***************************************************************************)
(* The handlers of tot.                                                    *)
(***************************************************************************)

\* The number from which a job without an entry goes on: fallbackHandler.get
\* returns 0 when the bucket cannot be read in ten attempts.
Previous(j) ==
    IF number[j] # Absent THEN {number[j]}
    ELSE {Fallback[j]} \cup IF FallbackFails THEN {0} ELSE {}

\* Mutant: the bucket is not asked.
VendNoFallback(r) ==
    LET j == JobOf[r[1]] IN
    /\ r \in requests
    /\ lock = Free
    /\ number' = [number EXCEPT ![j] = IF @ = Absent THEN 1 ELSE @ + 1]
    /\ lock' = [pc |-> "write", job |-> j, by |-> {r}]
    /\ requests' = requests \ {r}
    /\ UNCHANGED <<tmp, file, calls, vended, mishaps, posts, crashes>>

\* vend up to the save: lock, look up, increment.
Vend(r) ==
    LET j == JobOf[r[1]] IN
    /\ r \in requests
    /\ lock = Free
    /\ \E n \in Previous(j) :
          /\ number' = [number EXCEPT ![j] = n + 1]
          /\ mishaps' = IF n < Fallback[j] THEN mishaps \cup {"fallback"} ELSE mishaps
    /\ lock' = [pc |-> "write", job |-> j, by |-> {r}]
    /\ requests' = requests \ {r}
    /\ UNCHANGED <<tmp, file, calls, vended, posts, crashes>>

\* set up to the save, for a POST of an operator.
Set(j, n) ==
    /\ lock = Free
    /\ posts < MaxPosts
    /\ posts' = posts + 1
    /\ mishaps' = mishaps \cup {"post"}
    /\ number' = [number EXCEPT ![j] = n]
    /\ lock' = [pc |-> "write", job |-> j, by |-> {}]
    /\ UNCHANGED <<tmp, file, requests, calls, vended, crashes>>

\* save: the temporary file. A failure of either step of save is logged only.
Write ==
    /\ lock.pc = "write"
    /\ \/ /\ tmp' = number
          /\ lock' = [lock EXCEPT !.pc = "rename"]
          /\ UNCHANGED mishaps
       \/ /\ SavesFail
          /\ lock' = [lock EXCEPT !.pc = "reply"]
          /\ mishaps' = mishaps \cup {"save"}
          /\ UNCHANGED tmp
    /\ UNCHANGED <<number, file, requests, calls, vended, posts, crashes>>

Rename ==
    /\ lock.pc = "rename"
    /\ \/ file' = tmp /\ UNCHANGED mishaps
       \/ SavesFail /\ mishaps' = mishaps \cup {"save"} /\ UNCHANGED file
    /\ lock' = [lock EXCEPT !.pc = "reply"]
    /\ UNCHANGED <<number, tmp, requests, calls, vended, posts, crashes>>

\* Mutant: the handler answers before the save.
ReplyEarly ==
    /\ lock.pc \in {"write", "reply"}
    /\ lock' = Free
    /\ vended' = [vended EXCEPT ![lock.job] = Append(@, number[lock.job])]
    /\ UNCHANGED <<number, tmp, file, requests, calls, mishaps, posts, crashes>>

\* The mutex is released and the number returned. A client that still waits
\* for this attempt may get it; otherwise the answer is lost.
Reply ==
    /\ lock.pc = "reply"
    /\ lock' = Free
    /\ vended' = IF lock.by = {} THEN vended
                 ELSE [vended EXCEPT ![lock.job] = Append(@, number[lock.job])]
    /\ \/ UNCHANGED calls
       \/ \E r \in lock.by :
             /\ calls[r[1]] = [pc |-> "asking", try |-> r[2]]
             /\ calls' = [calls EXCEPT ![r[1]].pc = "done"]
    /\ UNCHANGED <<number, tmp, file, requests, mishaps, posts, crashes>>

\* Mutant: the file's numbers are not read back.
RestartEmpty ==
    /\ crashes < MaxCrashes
    /\ crashes' = crashes + 1
    /\ number' = [j \in Job |-> Absent]
    /\ lock' = Free
    /\ requests' = {}
    /\ UNCHANGED <<tmp, file, calls, vended, mishaps, posts>>

\* Tot crashes, and starts again from the file: newStore.
Restart ==
    /\ crashes < MaxCrashes
    /\ crashes' = crashes + 1
    /\ number' = file
    /\ lock' = Free
    /\ requests' = {}
    /\ UNCHANGED <<tmp, file, calls, vended, mishaps, posts>>

-----------------------------------------------------------------------------

Ended(c) == calls[c].pc \in {"done", "failed"}

Done == (\A c \in Client : Ended(c)) /\ UNCHANGED vars

Next ==
    \/ \E c \in Client : Ask(c) \/ AskFails(c) \/ GiveUp(c)
    \/ \E r \in Request : Vend(r)
    \/ \E j \in Job : \E n \in PostValues : Set(j, n)
    \/ Write \/ Rename \/ Reply \/ Restart
    \/ Done

Spec == Init /\ [][Next]_vars

\* HTTP attempts end, and a handler runs to its end unless tot crashes.
FairSpec ==
    /\ Spec
    /\ \A c \in Client : WF_vars(Ask(c) \/ AskFails(c) \/ GiveUp(c))
    /\ WF_vars((\E r \in Request : Vend(r)) \/ Write \/ Rename \/ Reply)

-----------------------------------------------------------------------------

TypeOK ==
    /\ number \in [Job -> Stored]
    /\ tmp \in [Job -> Stored]
    /\ file \in [Job -> Stored]
    /\ lock \in Held \cup {Free}
    /\ requests \subseteq Request
    /\ calls \in [Client -> [pc : {"idle", "asking", "done", "failed"},
                             try : 0..MaxTries]]
    /\ lock # Free => number[lock.job] \in Nat
    /\ vended \in [Job -> Seq(Nat)]
    /\ mishaps \subseteq {"save", "post", "fallback"}
    /\ posts \in Nat /\ crashes \in Nat

\* No save has failed and no operator has set a number.
Sound == mishaps \cap {"save", "post"} = {}

Ordered ==
    \A j \in Job : \A i, k \in DOMAIN vended[j] :
       i < k => vended[j][i] < vended[j][k]

\* The package comment, "Tot vends (rations) incrementing numbers": each number
\* vend returns is greater than every number it returned for the job before,
\* also after a crash and with requests served concurrently, as long as no
\* save fails (vend only logs that) and no operator sets a number.
Incrementing == Sound => Ordered

\* A number is greater than that of the latest build in the bucket
\* (fallbackHandler.get), so that no old build's results are overwritten,
\* unless the bucket was out of reach or an operator set a number.
AfterFallback ==
    mishaps \cap {"post", "fallback"} = {} =>
       \A j \in Job : \A i \in DOMAIN vended[j] : vended[j][i] > Fallback[j]

\* What vend has returned is in the file: newStore after a crash goes on from
\* there. The file may be ahead by the number whose answer is under way.
VendedSaved ==
    \A j \in Job : \A i \in DOMAIN vended[j] : vended[j][i] <= file[j]

\* Every GetBuildID returns, with a number or with an error, although
\* requests and answers are lost and tot crashes.
CallsEnd == \A c \in Client : <>Ended(c)

\* The file is never behind a vended number, memory is never behind the file,
\* a handler that has saved holds a number greater than all vended before.
Consistent ==
    /\ TypeOK
    /\ VendedSaved
    /\ Ordered
    /\ \A j \in Job : file[j] <= number[j]
    /\ lock = Free => number = file
    /\ lock # Free =>
         /\ \A j \in Job \ {lock.job} : number[j] = file[j]
         /\ lock.by # {}
         /\ \A i \in DOMAIN vended[lock.job] :
               vended[lock.job][i] < number[lock.job]
         /\ lock.pc = "rename" => tmp = number
         /\ lock.pc = "reply" => file = number

\* The bucket was always in reach and no operator has set a number.
FallbackKnown == mishaps \cap {"post", "fallback"} = {}

\* Every number that is in memory or in a file, whether its save succeeded or
\* not, comes after the latest build in the bucket, and so does every vended one.
BeyondFallback ==
    \A j \in Job :
       /\ \A n \in {number[j], tmp[j], file[j]} : n # Absent => n > Fallback[j]
       /\ \A i \in DOMAIN vended[j] : vended[j][i] > Fallback[j]

\* The strengthening of Incrementing and AfterFallback that every step keeps:
\* memory, the file and what vend has returned agree (store.save under the
\* mutex, newStore), and all of them are beyond the bucket (fallbackHandler.get).
IInv == TypeOK /\ (Sound => Consistent) /\ (FallbackKnown => BeyondFallback)
=============================================================================
