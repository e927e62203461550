-------------------------- MODULE UserCacheProofs --------------------------
(***************************************************************************)
(* Proofs about the user's hash in Redis, for every set of readers,        *)
(* writers, requests and tasks and for every bound.                        *)
(*                                                                         *)
(* First the fence of the authentication state (UserAuthFence): its type,  *)
(* the committed floor, and that it implements the register of             *)
(* AuthRegister.  As long as no fence ran out too early, either the        *)
(* effective floor has reached the committed version, or nobody holds an   *)
(* older copy any more (Guarded).  A commit keeps it because its fence is  *)
(* still up (Pending); the expiry of a fence keeps it because the copies   *)
(* it was raised against have expired before (Aged).                       *)
(*                                                                         *)
(* Then the Quota field (QuotaCache): its type, the conserved sum, and     *)
(* that row, hash and batch store implement the one number of QuotaCell.   *)
(* As long as nothing happened that may leave the hash above the wallet,   *)
(* it shows no more than the wallet and what the movements half done make  *)
(* it run ahead (HashBelow); the sums over the processes move by what the  *)
(* one process does that takes the step (SumOfUpdate).                     *)
(***************************************************************************)
EXTENDS UserAuthFence, QuotaCache, FiniteSums, TLAPS

\* Copies of the row: never newer than it, never of the deleted row.
Copy(v) == v # 0 /\ v <= version /\ (deletedAt = 0 \/ v < deletedAt)

ReaderCopies ==
    \A r \in Readers :
        /\ since[r] <= version
        /\ rpc[r] \in {"hit", "row", "guarded"} => Copy(rgot[r])
        /\ rpc[r] \in {"row", "guarded"} => rgot[r] >= since[r]

WriterCopies ==
    \A w \in Writers :
        /\ wpc[w] = "publish" => Copy(wgot[w])
        /\ wpc[w] \in {"field", "promote"} => wgot[w] <= version /\ wgot[w] # 0
        /\ wpc[w] \in {"locked", "fenced"} => wgot[w] <= version + 1 /\ wgot[w] # 0
        /\ wpc[w] = "updated" => wgot[w] = version + 1 /\ ~erased

OneUpdate == \A w, x \in Writers : wpc[w] = "updated" /\ wpc[x] = "updated" => w = x

Bounds ==
    /\ deletedAt <= version /\ floor <= version /\ fence <= version + 1
    /\ hash # 0 => Copy(hash)

Aged == fence # 0 /\ hash # 0 => written = "before"

Broken == late \/ erased

Pending ==
    Broken \/ \A w \in Writers :
        wpc[w] \in {"fenced", "updated"} /\ wgot[w] = version + 1 => fence >= wgot[w]

NoOldCopy ==
    /\ hash \in {0, version}
    /\ \A r \in Readers : rpc[r] \in {"hit", "row", "guarded"} => rgot[r] = version
    /\ \A w \in Writers : wpc[w] = "publish" => wgot[w] = version

Guarded == Broken \/ fence >= version \/ floor >= version \/ NoOldCopy

IInv ==
    /\ AuthTypes /\ ReaderCopies /\ WriterCopies /\ OneUpdate /\ Bounds /\ Aged
    /\ Pending /\ Guarded

LEMMA InitIInv == Init => IInv
<1> SUFFICES ASSUME Init PROVE IInv
  OBVIOUS
<1>1. AuthTypes
  <2>1. 0 \in 0 .. MaxChanges /\ 0 \in 0 .. MaxFaults
    BY UserAuthFenceAssumption DEF UserAuthFenceAssumption
  <2>2. erased \in BOOLEAN /\ late \in BOOLEAN
    BY Zenon DEF Init
  <2>3. rpc \in [Readers -> {"idle", "asking", "hit", "miss", "row", "guarded"}]
    BY DEF Init
  <2>4. wpc \in [Writers -> {"idle", "committed", "publish", "field", "promote", "invalidate"} \cup InTransaction]
    BY DEF Init
  <2>5. \A r \in Readers : since[r] = 0 <=> rpc[r] = "idle"
    BY DEF Init
  <2> QED
    BY <2>1, <2>2, <2>3, <2>4, <2>5, SMTT(30) DEF Init, AuthTypes, Kinds
<1>2. ReaderCopies /\ WriterCopies /\ OneUpdate /\ Bounds /\ Aged
  BY DEF Init, ReaderCopies, WriterCopies, OneUpdate, Bounds, Aged
<1>3. Pending /\ Guarded
  BY DEF Init, Pending, Guarded, NoOldCopy
<1> QED
  BY <1>1, <1>2, <1>3 DEF IInv

\* A request takes a copy of the row or of the hash, or fills the hash with its own.
LEMMA ReaderKeeps == ASSUME IInv, NEW r \in Readers, Reader(r) PROVE IInv'
<1> USE UserAuthFenceAssumption DEF UserAuthFenceAssumption, AuthTypes, Copy, Bounds, row, redis, readers, writers
<1>t. AuthTypes /\ ReaderCopies /\ WriterCopies /\ OneUpdate /\ Bounds /\ Aged /\ Pending /\ Guarded
  BY DEF IInv
<1>1. CASE Begin(r)
  <2>1. AuthTypes'
    BY <1>t, <1>1, SMTT(30) DEF Begin, Kinds, InTransaction
  <2>2. ReaderCopies' /\ WriterCopies' /\ OneUpdate'
    BY <1>t, <1>1, SMTT(30) DEF Begin, ReaderCopies, WriterCopies, OneUpdate
  <2>3. Bounds' /\ Aged'
    BY <1>t, <1>1, SMTT(30) DEF Begin, Aged, ReaderCopies, WriterCopies
  <2>4. Pending' /\ Guarded'
    BY <1>t, <1>1, SMTT(30)
    DEF Begin, Pending, Guarded, NoOldCopy, Broken, Aged, ReaderCopies, WriterCopies, OneUpdate
  <2> QED
    BY <2>1, <2>2, <2>3, <2>4 DEF IInv
<1>2. CASE ReadHash(r)
  <2>1. AuthTypes'
    BY <1>t, <1>2, SMTT(30) DEF ReadHash, Hold, RedisFails, Kinds, InTransaction
  <2>2. ReaderCopies' /\ WriterCopies' /\ OneUpdate'
    BY <1>t, <1>2, SMTT(30) DEF ReadHash, Hold, RedisFails, ReaderCopies, WriterCopies, OneUpdate
  <2>3. Bounds' /\ Aged'
    BY <1>t, <1>2, SMTT(30) DEF ReadHash, Hold, RedisFails, Aged, ReaderCopies, WriterCopies
  <2>4. Pending' /\ Guarded'
    BY <1>t, <1>2, SMTT(30)
    DEF ReadHash, Hold, RedisFails, Pending, Guarded, NoOldCopy, Broken, Aged, ReaderCopies,
        WriterCopies, OneUpdate
  <2> QED
    BY <2>1, <2>2, <2>3, <2>4 DEF IInv
<1>3. CASE CheckFloor(r)
  <2>1. AuthTypes'
    BY <1>t, <1>3, SMTT(30)
    DEF CheckFloor, Hold, Return, RedisFails, EffectiveFloor, Kinds, InTransaction
  <2>2. ReaderCopies' /\ WriterCopies' /\ OneUpdate'
    BY <1>t, <1>3, SMTT(30)
    DEF CheckFloor, Hold, Return, RedisFails, EffectiveFloor, ReaderCopies, WriterCopies,
        OneUpdate
  <2>3. Bounds' /\ Aged'
    BY <1>t, <1>3, SMTT(30)
    DEF CheckFloor, Hold, Return, RedisFails, EffectiveFloor, Aged, ReaderCopies, WriterCopies
  <2>4. Pending' /\ Guarded'
    BY <1>t, <1>3, SMTT(30)
    DEF CheckFloor, Hold, Return, RedisFails, EffectiveFloor, Pending, Guarded, NoOldCopy,
        Broken, Aged, ReaderCopies, WriterCopies, OneUpdate
  <2> QED
    BY <2>1, <2>2, <2>3, <2>4 DEF IInv
<1>4. CASE ReadRow(r)
  <2>1. AuthTypes'
    BY <1>t, <1>4, SMTT(30) DEF ReadRow, Hold, Return, Present, Kinds, InTransaction
  <2>2. ReaderCopies' /\ WriterCopies' /\ OneUpdate'
    BY <1>t, <1>4, SMTT(30)
    DEF ReadRow, Hold, Return, Present, ReaderCopies, WriterCopies, OneUpdate
  <2>3. Bounds' /\ Aged'
    BY <1>t, <1>4, SMTT(30) DEF ReadRow, Hold, Return, Present, Aged, ReaderCopies, WriterCopies
  <2>4. Pending' /\ Guarded'
    BY <1>t, <1>4, SMTT(30)
    DEF ReadRow, Hold, Return, Present, Pending, Guarded, NoOldCopy, Broken, Aged, ReaderCopies,
        WriterCopies, OneUpdate
  <2> QED
    BY <2>1, <2>2, <2>3, <2>4 DEF IInv
<1>5. CASE GuardRow(r)
  <2>1. AuthTypes'
    BY <1>t, <1>5, SMTT(30)
    DEF GuardRow, Hold, Return, RedisFails, EffectiveFloor, Kinds, InTransaction
  <2>2. ReaderCopies' /\ WriterCopies' /\ OneUpdate'
    BY <1>t, <1>5, SMTT(30)
    DEF GuardRow, Hold, Return, RedisFails, EffectiveFloor, ReaderCopies, WriterCopies,
        OneUpdate
  <2>3. Bounds' /\ Aged'
    BY <1>t, <1>5, SMTT(30)
    DEF GuardRow, Hold, Return, RedisFails, EffectiveFloor, Aged, ReaderCopies, WriterCopies
  <2>4. Pending' /\ Guarded'
    BY <1>t, <1>5, SMTT(30)
    DEF GuardRow, Hold, Return, RedisFails, EffectiveFloor, Pending, Guarded, NoOldCopy, Broken,
        Aged, ReaderCopies, WriterCopies, OneUpdate
  <2> QED
    BY <2>1, <2>2, <2>3, <2>4 DEF IInv
<1>6. CASE Fill(r)
  <2>1. AuthTypes'
    BY <1>t, <1>6, SMTT(30)
    DEF Fill, Return, RedisFails, Accepts, WriteHash, Promote, Kinds, InTransaction
  <2>2. ReaderCopies' /\ WriterCopies' /\ OneUpdate'
    BY <1>t, <1>6, SMTT(30)
    DEF Fill, Return, RedisFails, Accepts, WriteHash, Promote, ReaderCopies, WriterCopies,
        OneUpdate
  <2>3. Bounds' /\ Aged'
    BY <1>t, <1>6, SMTT(30)
    DEF Fill, Return, RedisFails, Accepts, WriteHash, Promote, Aged, ReaderCopies, WriterCopies
  <2>4. Pending' /\ Guarded'
    BY <1>t, <1>6, SMTT(30)
    DEF Fill, Return, RedisFails, Accepts, WriteHash, Promote, Pending, Guarded, NoOldCopy,
        Broken, Aged, ReaderCopies, WriterCopies, OneUpdate
  <2> QED
    BY <2>1, <2>2, <2>3, <2>4 DEF IInv
<1>7. CASE GiveUp(r)
  <2>1. AuthTypes'
    BY <1>t, <1>7, SMTT(30) DEF GiveUp, Return, Kinds, InTransaction
  <2>2. ReaderCopies' /\ WriterCopies' /\ OneUpdate'
    BY <1>t, <1>7, SMTT(30) DEF GiveUp, Return, ReaderCopies, WriterCopies, OneUpdate
  <2>3. Bounds' /\ Aged'
    BY <1>t, <1>7, SMTT(30) DEF GiveUp, Return, Aged, ReaderCopies, WriterCopies
  <2>4. Pending' /\ Guarded'
    BY <1>t, <1>7, SMTT(30)
    DEF GiveUp, Return, Pending, Guarded, NoOldCopy, Broken, Aged, ReaderCopies, WriterCopies,
        OneUpdate
  <2> QED
    BY <2>1, <2>2, <2>3, <2>4 DEF IInv
<1> QED
  BY <1>1, <1>2, <1>3, <1>4, <1>5, <1>6, <1>7 DEF Reader

\* A commit finds its fence still up; everybody else only publishes what was committed.
LEMMA WriterKeeps == ASSUME IInv, NEW w \in Writers, Writer(w) PROVE IInv'
<1> USE UserAuthFenceAssumption DEF UserAuthFenceAssumption, AuthTypes, Copy, Bounds, row, redis, readers, writers
<1>t. AuthTypes /\ ReaderCopies /\ WriterCopies /\ OneUpdate /\ Bounds /\ Aged /\ Pending /\ Guarded
  BY DEF IInv
<1>1. CASE LockUser(w)
  <2>1. AuthTypes'
    BY <1>t, <1>1, SMTT(30) DEF LockUser, MoveTo, Kinds, InTransaction
  <2>2. ReaderCopies' /\ WriterCopies' /\ OneUpdate'
    BY <1>t, <1>1, SMTT(30) DEF LockUser, MoveTo, ReaderCopies, WriterCopies, OneUpdate
  <2>3. Bounds' /\ Aged'
    BY <1>t, <1>1, SMTT(30) DEF LockUser, MoveTo, Aged, ReaderCopies, WriterCopies
  <2>4. Pending' /\ Guarded'
    BY <1>t, <1>1, SMTT(30)
    DEF LockUser, MoveTo, Pending, Guarded, NoOldCopy, Broken, Aged, ReaderCopies, WriterCopies,
        OneUpdate
  <2> QED
    BY <2>1, <2>2, <2>3, <2>4 DEF IInv
<1>2. CASE SetFence(w)
  <2>1. AuthTypes'
    BY <1>t, <1>2, SMTT(30) DEF SetFence, MoveTo, RaiseFence, Kinds, InTransaction
  <2>2. ReaderCopies' /\ WriterCopies' /\ OneUpdate'
    BY <1>t, <1>2, SMTT(30) DEF SetFence, MoveTo, RaiseFence, ReaderCopies, WriterCopies, OneUpdate
  <2>3. Bounds' /\ Aged'
    BY <1>t, <1>2, SMTT(30) DEF SetFence, MoveTo, RaiseFence, Aged, ReaderCopies, WriterCopies
  <2>4. Pending' /\ Guarded'
    BY <1>t, <1>2, SMTT(30)
    DEF SetFence, MoveTo, RaiseFence, Pending, Guarded, NoOldCopy, Broken, Aged, ReaderCopies,
        WriterCopies, OneUpdate
  <2> QED
    BY <2>1, <2>2, <2>3, <2>4 DEF IInv
<1>3. CASE UpdateVersion(w)
  <2>1. AuthTypes'
    BY <1>t, <1>3, SMTT(30) DEF UpdateVersion, MoveTo, Kinds, InTransaction
  <2>2. ReaderCopies' /\ WriterCopies' /\ OneUpdate'
    BY <1>t, <1>3, SMTT(30) DEF UpdateVersion, MoveTo, ReaderCopies, WriterCopies, OneUpdate
  <2>3. Bounds' /\ Aged'
    BY <1>t, <1>3, SMTT(30) DEF UpdateVersion, MoveTo, Aged, ReaderCopies, WriterCopies
  <2>4. Pending' /\ Guarded'
    BY <1>t, <1>3, SMTT(30)
    DEF UpdateVersion, MoveTo, Pending, Guarded, NoOldCopy, Broken, Aged, ReaderCopies,
        WriterCopies, OneUpdate
  <2> QED
    BY <2>1, <2>2, <2>3, <2>4 DEF IInv
<1>4. CASE Reread(w)
  <2>1. AuthTypes'
    BY <1>t, <1>4, SMTT(30) DEF Reread, MoveTo, Kinds, InTransaction
  <2>2. ReaderCopies' /\ WriterCopies' /\ OneUpdate'
    BY <1>t, <1>4, SMTT(30) DEF Reread, MoveTo, ReaderCopies, WriterCopies, OneUpdate
  <2>3. Bounds' /\ Aged'
    BY <1>t, <1>4, SMTT(30) DEF Reread, MoveTo, Aged, ReaderCopies, WriterCopies
  <2>4. Pending' /\ Guarded'
    BY <1>t, <1>4, SMTT(30)
    DEF Reread, MoveTo, Pending, Guarded, NoOldCopy, Broken, Aged, ReaderCopies, WriterCopies,
        OneUpdate
  <2> QED
    BY <2>1, <2>2, <2>3, <2>4 DEF IInv
<1>5. CASE Commit(w)
  <2>1. AuthTypes'
    BY <1>t, <1>5, SMTT(30) DEF Commit, MoveTo, Present, Kinds, InTransaction, WriterCopies
  <2>2. ReaderCopies' /\ WriterCopies' /\ OneUpdate'
    BY <1>t, <1>5, SMTT(30) DEF Commit, MoveTo, Present, ReaderCopies, WriterCopies, OneUpdate
  <2>3. Bounds' /\ Aged'
    BY <1>t, <1>5, SMTT(30) DEF Commit, MoveTo, Present, Aged, ReaderCopies, WriterCopies
  <2>4. Pending' /\ Guarded'
    BY <1>t, <1>5, SMTT(30)
    DEF Commit, MoveTo, Present, Pending, Guarded, NoOldCopy, Broken, Aged, ReaderCopies,
        WriterCopies, OneUpdate
  <2> QED
    BY <2>1, <2>2, <2>3, <2>4 DEF IInv
<1>6. CASE ReadCommitted(w)
  <2>1. AuthTypes'
    BY <1>t, <1>6, SMTT(30) DEF ReadCommitted, MoveTo, Present, Done, Kinds, InTransaction
  <2>2. ReaderCopies' /\ WriterCopies' /\ OneUpdate'
    BY <1>t, <1>6, SMTT(30)
    DEF ReadCommitted, MoveTo, Present, Done, ReaderCopies, WriterCopies, OneUpdate
  <2>3. Bounds' /\ Aged'
    BY <1>t, <1>6, SMTT(30)
    DEF ReadCommitted, MoveTo, Present, Done, Aged, ReaderCopies, WriterCopies
  <2>4. Pending' /\ Guarded'
    BY <1>t, <1>6, SMTT(30)
    DEF ReadCommitted, MoveTo, Present, Done, Pending, Guarded, NoOldCopy, Broken, Aged,
        ReaderCopies, WriterCopies, OneUpdate
  <2> QED
    BY <2>1, <2>2, <2>3, <2>4 DEF IInv
<1>7. CASE ReadProfile(w)
  <2>1. AuthTypes'
    BY <1>t, <1>7, SMTT(30) DEF ReadProfile, MoveTo, Present, Kinds, InTransaction
  <2>2. ReaderCopies' /\ WriterCopies' /\ OneUpdate'
    BY <1>t, <1>7, SMTT(30) DEF ReadProfile, MoveTo, Present, ReaderCopies, WriterCopies, OneUpdate
  <2>3. Bounds' /\ Aged'
    BY <1>t, <1>7, SMTT(30) DEF ReadProfile, MoveTo, Present, Aged, ReaderCopies, WriterCopies
  <2>4. Pending' /\ Guarded'
    BY <1>t, <1>7, SMTT(30)
    DEF ReadProfile, MoveTo, Present, Pending, Guarded, NoOldCopy, Broken, Aged, ReaderCopies,
        WriterCopies, OneUpdate
  <2> QED
    BY <2>1, <2>2, <2>3, <2>4 DEF IInv
<1>8. CASE Publish(w)
  <2>1. AuthTypes'
    BY <1>t, <1>8, SMTT(30)
    DEF Publish, MoveTo, Done, Accepts, WriteHash, Promote, Kinds, InTransaction
  <2>2. ReaderCopies' /\ WriterCopies' /\ OneUpdate'
    BY <1>t, <1>8, SMTT(30)
    DEF Publish, MoveTo, Done, Accepts, WriteHash, Promote, ReaderCopies, WriterCopies,
        OneUpdate
  <2>3. Bounds' /\ Aged'
    BY <1>t, <1>8, SMTT(30)
    DEF Publish, MoveTo, Done, Accepts, WriteHash, Promote, Aged, ReaderCopies, WriterCopies
  <2>4. Pending' /\ Guarded'
    BY <1>t, <1>8, SMTT(30)
    DEF Publish, MoveTo, Done, Accepts, WriteHash, Promote, Pending, Guarded, NoOldCopy, Broken,
        Aged, ReaderCopies, WriterCopies, OneUpdate
  <2> QED
    BY <2>1, <2>2, <2>3, <2>4 DEF IInv
<1>9. CASE RefreshField(w)
  <2>1. AuthTypes'
    BY <1>t, <1>9, SMTT(30)
    DEF RefreshField, MoveTo, Done, Accepts, WriteField, Promote, Kinds, InTransaction
  <2>2. ReaderCopies' /\ WriterCopies' /\ OneUpdate'
    BY <1>t, <1>9, SMTT(30)
    DEF RefreshField, MoveTo, Done, Accepts, WriteField, Promote, ReaderCopies, WriterCopies,
        OneUpdate
  <2>3. Bounds' /\ Aged'
    BY <1>t, <1>9, SMTT(30)
    DEF RefreshField, MoveTo, Done, Accepts, WriteField, Promote, Aged, ReaderCopies,
        WriterCopies
  <2>4. Pending' /\ Guarded'
    BY <1>t, <1>9, SMTT(30)
    DEF RefreshField, MoveTo, Done, Accepts, WriteField, Promote, Pending, Guarded, NoOldCopy,
        Broken, Aged, ReaderCopies, WriterCopies, OneUpdate
  <2> QED
    BY <2>1, <2>2, <2>3, <2>4 DEF IInv
<1>10. CASE PublishCommitted(w)
  <2>1. AuthTypes'
    BY <1>t, <1>10, SMTT(30) DEF PublishCommitted, MoveTo, PromoteCommitted, Kinds, InTransaction
  <2>2. ReaderCopies' /\ WriterCopies' /\ OneUpdate'
    BY <1>t, <1>10, SMTT(30)
    DEF PublishCommitted, MoveTo, PromoteCommitted, ReaderCopies, WriterCopies, OneUpdate
  <2>3. Bounds' /\ Aged'
    BY <1>t, <1>10, SMTT(30)
    DEF PublishCommitted, MoveTo, PromoteCommitted, Aged, ReaderCopies, WriterCopies
  <2>4. Pending' /\ Guarded'
    BY <1>t, <1>10, SMTT(30)
    DEF PublishCommitted, MoveTo, PromoteCommitted, Pending, Guarded, NoOldCopy, Broken, Aged,
        ReaderCopies, WriterCopies, OneUpdate
  <2> QED
    BY <2>1, <2>2, <2>3, <2>4 DEF IInv
<1>11. CASE Erase(w)
  <2>1. AuthTypes'
    BY <1>t, <1>11, SMTT(30) DEF Erase, MoveTo, Kinds, InTransaction
  <2>2. ReaderCopies' /\ WriterCopies' /\ OneUpdate'
    BY <1>t, <1>11, SMTT(30) DEF Erase, MoveTo, ReaderCopies, WriterCopies, OneUpdate
  <2>3. Bounds' /\ Aged'
    BY <1>t, <1>11, SMTT(30) DEF Erase, MoveTo, Aged, ReaderCopies, WriterCopies
  <2>4. Pending' /\ Guarded'
    BY <1>t, <1>11, SMTT(30)
    DEF Erase, MoveTo, Pending, Guarded, NoOldCopy, Broken, Aged, ReaderCopies, WriterCopies,
        OneUpdate
  <2> QED
    BY <2>1, <2>2, <2>3, <2>4 DEF IInv
<1>12. CASE Invalidate(w)
  <2>1. AuthTypes'
    BY <1>t, <1>12, SMTT(30) DEF Invalidate, MoveTo, Done, Kinds, InTransaction
  <2>2. ReaderCopies' /\ WriterCopies' /\ OneUpdate'
    BY <1>t, <1>12, SMTT(30) DEF Invalidate, MoveTo, Done, ReaderCopies, WriterCopies, OneUpdate
  <2>3. Bounds' /\ Aged'
    BY <1>t, <1>12, SMTT(30) DEF Invalidate, MoveTo, Done, Aged, ReaderCopies, WriterCopies
  <2>4. Pending' /\ Guarded'
    BY <1>t, <1>12, SMTT(30)
    DEF Invalidate, MoveTo, Done, Pending, Guarded, NoOldCopy, Broken, Aged, ReaderCopies,
        WriterCopies, OneUpdate
  <2> QED
    BY <2>1, <2>2, <2>3, <2>4 DEF IInv
<1>13. CASE Abandon(w)
  <2>1. AuthTypes'
    BY <1>t, <1>13, SMTT(30) DEF Abandon, MoveTo, Done, Kinds, InTransaction
  <2>2. ReaderCopies' /\ WriterCopies' /\ OneUpdate'
    BY <1>t, <1>13, SMTT(30) DEF Abandon, MoveTo, Done, ReaderCopies, WriterCopies, OneUpdate
  <2>3. Bounds' /\ Aged'
    BY <1>t, <1>13, SMTT(30) DEF Abandon, MoveTo, Done, Aged, ReaderCopies, WriterCopies
  <2>4. Pending' /\ Guarded'
    BY <1>t, <1>13, SMTT(30)
    DEF Abandon, MoveTo, Done, Pending, Guarded, NoOldCopy, Broken, Aged, ReaderCopies,
        WriterCopies, OneUpdate
  <2> QED
    BY <2>1, <2>2, <2>3, <2>4 DEF IInv
<1> QED
  BY <1>1, <1>2, <1>3, <1>4, <1>5, <1>6, <1>7, <1>8, <1>9, <1>10, <1>11, <1>12, <1>13 DEF Writer

\* A fence outlives the copies it was raised against, or it is late.
LEMMA ExpiryKeeps == ASSUME IInv, HashExpires \/ FenceExpires PROVE IInv'
<1> USE UserAuthFenceAssumption DEF UserAuthFenceAssumption, AuthTypes, Copy, Bounds, row, redis, readers, writers
<1>t. AuthTypes /\ ReaderCopies /\ WriterCopies /\ OneUpdate /\ Bounds /\ Aged /\ Pending /\ Guarded
  BY DEF IInv
<1>1. CASE HashExpires
  <2>1. AuthTypes'
    BY <1>t, <1>1, SMTT(30) DEF HashExpires, Kinds, InTransaction
  <2>2. ReaderCopies' /\ WriterCopies' /\ OneUpdate'
    BY <1>t, <1>1, SMTT(30) DEF HashExpires, ReaderCopies, WriterCopies, OneUpdate
  <2>3. Bounds' /\ Aged'
    BY <1>t, <1>1, SMTT(30) DEF HashExpires, Aged, ReaderCopies, WriterCopies
  <2>4. Pending' /\ Guarded'
    BY <1>t, <1>1, SMTT(30)
    DEF HashExpires, Pending, Guarded, NoOldCopy, Broken, Aged, ReaderCopies, WriterCopies,
        OneUpdate
  <2> QED
    BY <2>1, <2>2, <2>3, <2>4 DEF IInv
<1>2. CASE FenceExpires
  <2>1. AuthTypes'
    <3>1. CASE Stragglers /\ late' = TRUE
      BY <1>t, <1>2, <3>1, SMTT(30) DEF FenceExpires, Kinds, InTransaction
    <3>2. CASE UNCHANGED late
      BY <1>t, <1>2, <3>2, SMTT(30) DEF FenceExpires, Kinds, InTransaction
    <3> QED
      BY <1>2, <3>1, <3>2 DEF FenceExpires
  <2>2. ReaderCopies' /\ WriterCopies' /\ OneUpdate'
    BY <1>t, <1>2, SMTT(30) DEF FenceExpires, Stragglers, ReaderCopies, WriterCopies, OneUpdate
  <2>3. Bounds' /\ Aged'
    BY <1>t, <1>2, SMTT(30) DEF FenceExpires, Stragglers, Aged, ReaderCopies, WriterCopies
  <2>4. Pending' /\ Guarded'
    BY <1>t, <1>2, SMTT(30)
    DEF FenceExpires, Stragglers, Pending, Guarded, NoOldCopy, Broken, Aged, ReaderCopies,
        WriterCopies, OneUpdate
  <2> QED
    BY <2>1, <2>2, <2>3, <2>4 DEF IInv
<1> QED
  BY <1>1, <1>2

LEMMA StepIInv == IInv /\ [Next]_vars => IInv'
<1> SUFFICES ASSUME IInv, [Next]_vars PROVE IInv'
  OBVIOUS
<1>1. CASE \E r \in Readers : Reader(r)
  BY <1>1, ReaderKeeps
<1>2. CASE \E w \in Writers : Writer(w)
  BY <1>2, WriterKeeps
<1>3. CASE HashExpires \/ FenceExpires
  BY <1>3, ExpiryKeeps
<1>4. CASE UNCHANGED vars
  BY <1>4
  DEF vars, row, redis, readers, writers, IInv, AuthTypes, ReaderCopies, WriterCopies, OneUpdate,
     Bounds, Aged, Pending, Guarded, NoOldCopy, Broken, Copy
<1> QED
  BY <1>1, <1>2, <1>3, <1>4 DEF Next

THEOREM Invariance == Spec => []IInv
  BY InitIInv, StepIInv, PTL DEF Spec

-----------------------------------------------------------------------------
\* The type of the fence's state, with the bounds of the hash and of the pending fence
\* (SetUserAuthVersionFence, writeUserCache).
THEOREM TypeCorrect == Spec => []TypeOK
<1>1. IInv => TypeOK
  BY DEF IInv, AuthTypes, Bounds, Copy, TypeOK
<1> QED
  BY Invariance, <1>1, PTL

\* publishCommittedUserAuthVersion and the scripts never publish a floor above the
\* committed version, so that no user is refused for ever.
THEOREM FloorCommitted == Spec => []FloorIsCommitted
<1>1. IInv => FloorIsCommitted
  BY DEF IInv, Bounds, FloorIsCommitted
<1> QED
  BY Invariance, <1>1, PTL

\* A reply that passed the floor's check, or that was read from the row, is a reply of
\* the register.
LEMMA ReturnIsReply ==
    ASSUME IInv, NEW r \in Readers, rpc[r] # "idle", Return(r, rgot[r]), Copy(rgot[r]),
           rgot[r] >= since[r] \/ Broken, UNCHANGED <<row, late>>
    PROVE  Register!Reply(r)
<1>1. rgot[r] \in 1 .. version
  BY DEF IInv, AuthTypes, Copy
<1>2. since[r] # 0
  BY DEF IInv, AuthTypes
<1> QED
  BY <1>1, <1>2 DEF Return, Register!Reply, Copy, Broken, row

LEMMA StepImplements == IInv /\ [Next]_vars => [Register!Next]_(Register!vars)
<1> SUFFICES ASSUME IInv, [Next]_vars PROVE [Register!Next]_(Register!vars)
  OBVIOUS
<1> USE DEF Register!vars, row, redis, readers, writers
<1>t. AuthTypes /\ ReaderCopies /\ WriterCopies /\ Guarded
  BY DEF IInv
<1>1. ASSUME NEW r \in Readers, Reader(r) PROVE [Register!Next]_(Register!vars)
  <2>0. ASSUME Return(r, 0), rpc[r] # "idle", UNCHANGED <<row, late>> PROVE Register!Refuse(r)
    BY <1>t, <2>0 DEF Return, Register!Refuse, AuthTypes
  <2>1. CASE Begin(r)
    <3>1. Register!Ask(r)
      BY <1>t, <2>1 DEF Begin, Register!Ask, AuthTypes
    <3> QED
      BY <3>1 DEF Register!Next
  <2>2. CASE ReadHash(r)
    BY <2>2 DEF ReadHash, Hold
  <2>3. CASE CheckFloor(r)
    <3>1. CASE Hold(r, "miss", 0)
      BY <2>3, <3>1 DEF CheckFloor, Hold
    <3>2. CASE EffectiveFloor <= rgot[r] /\ Return(r, rgot[r])
      <4>1. Copy(rgot[r])
        BY <1>t, <2>3 DEF CheckFloor, ReaderCopies
      <4>2. rgot[r] >= since[r] \/ Broken
        BY <1>t, <2>3, <3>2, SMTT(30)
        DEF CheckFloor, AuthTypes, ReaderCopies, Guarded, NoOldCopy, EffectiveFloor, Copy
      <4>3. Register!Reply(r)
        BY <2>3, <3>2, <4>1, <4>2, ReturnIsReply DEF CheckFloor
      <4> QED
        BY <4>3 DEF Register!Next
    <3> QED
      BY <2>3, <3>1, <3>2 DEF CheckFloor
  <2>4. CASE ReadRow(r)
    <3>1. CASE Hold(r, "row", version)
      BY <2>4, <3>1 DEF ReadRow, Hold
    <3>2. CASE Return(r, 0)
      BY <2>0, <2>4, <3>2 DEF ReadRow, Register!Next
    <3> QED
      BY <2>4, <3>1, <3>2 DEF ReadRow
  <2>5. CASE GuardRow(r)
    <3>1. CASE Hold(r, "guarded", rgot[r])
      BY <2>5, <3>1 DEF GuardRow, Hold
    <3>2. CASE Return(r, 0)
      BY <2>0, <2>5, <3>2 DEF GuardRow, Register!Next
    <3> QED
      BY <2>5, <3>1, <3>2 DEF GuardRow
  <2>6. CASE Fill(r)
    <3>1. CASE Return(r, rgot[r])
      <4>1. Copy(rgot[r]) /\ rgot[r] >= since[r]
        BY <1>t, <2>6 DEF Fill, ReaderCopies
      <4>2. Register!Reply(r)
        BY <2>6, <3>1, <4>1, ReturnIsReply DEF Fill
      <4> QED
        BY <4>2 DEF Register!Next
    <3>2. CASE Return(r, 0)
      BY <2>0, <2>6, <3>2 DEF Fill, Register!Next
    <3> QED
      BY <2>6, <3>1, <3>2 DEF Fill
  <2>7. CASE GiveUp(r)
    BY <2>0, <2>7 DEF GiveUp, Register!Next
  <2> QED
    BY <1>1, <2>1, <2>2, <2>3, <2>4, <2>5, <2>6, <2>7 DEF Reader
<1>2. ASSUME NEW w \in Writers, Writer(w) PROVE [Register!Next]_(Register!vars)
  <2>1. CASE Commit(w)
    <3>1. version' = version + 1 /\ ~erased
      BY <1>t, <2>1 DEF Commit, WriterCopies
    <3>2. Register!Change
      BY <1>t, <2>1, <3>1 DEF Commit, Register!Change, AuthTypes
    <3> QED
      BY <3>2 DEF Register!Next
  <2>2. CASE Erase(w)
    <3>1. Register!Change
      BY <2>2 DEF Erase, Register!Change
    <3> QED
      BY <3>1 DEF Register!Next
  <2>3. CASE UNCHANGED <<row, readers, late>>
    BY <2>3
  <2> QED
    BY <1>2, <2>1, <2>2, <2>3
    DEF Writer, LockUser, SetFence, UpdateVersion, Reread, ReadCommitted, ReadProfile,
       Publish, RefreshField, PublishCommitted, Invalidate, Abandon
<1>3. CASE HashExpires
  BY <1>3 DEF HashExpires
<1>4. CASE FenceExpires
  <2>1. CASE late' = TRUE
    BY <1>4, <2>1 DEF FenceExpires, Register!Next, Register!RunOut
  <2>2. CASE UNCHANGED late
    BY <1>4, <2>2 DEF FenceExpires
  <2> QED
    BY <1>4, <2>1, <2>2 DEF FenceExpires
<1>5. CASE UNCHANGED vars
  BY <1>5 DEF vars
<1> QED
  BY <1>1, <1>2, <1>3, <1>4, <1>5 DEF Next

\* However late a fill or a publication arrives and wherever a writer stops, requests
\* see a register of the authentication version.
THEOREM RegisterImplemented == Spec => ImplementsRegister
<1>1. Init => Register!Init
  BY DEF Init, Register!Init
<1> QED
  BY <1>1, Invariance, StepImplements, PTL DEF Spec, ImplementsRegister, Register!Spec

-----------------------------------------------------------------------------
(***************************************************************************)
(* The wallet (QuotaCache): the conserved sum, and the hash below it.      *)
(***************************************************************************)
\* By how much the hash is ahead of the record because of a movement half done.
Ahead == [p \in Procs |->
            IF pc[p] = "compensate" \/ todo[p] = {"cache"} THEN -amount[p]
            ELSE IF todo[p] = {"record"} THEN amount[p] ELSE 0]

\* Reservations ask for something; a visit, which asks for nothing, never gets
\* past its fill.
Asking(p) ==
    /\ pc[p] \in {"ask", "retry", "fallback", "persist", "compensate"} => amount[p] > 0
    /\ pc[p] \in {"look", "fill"} => amount[p] >= 0

\* Unless something happened that may leave it above the wallet, the hash shows no
\* more than the wallet and what the movements half done make it run ahead.
HashBelow == shown /\ ~suspect => cached <= Balance + SumOf(Ahead, Procs)

WalletInv ==
    /\ QuotaTypeOK
    /\ \A p \in Procs : Asking(p)
    /\ Conserved
    /\ HashBelow

LEMMA HeldSum == Unrecorded = SumOf(Held, Procs)
BY DEF Unrecorded, SumOf

\* Process p has taken a step; the others stand where they stood.
OthersStay(p) == \A q \in Procs : q # p =>
    pc'[q] = pc[q] /\ amount'[q] = amount[q] /\ todo'[q] = todo[q]

LEMMA ColumnTypes ==
    ASSUME QuotaTypeOK
    PROVE  /\ \A p \in Procs : Held[p] \in Int /\ Ahead[p] \in Int
           /\ SumOf(Held, Procs) \in Int /\ SumOf(Ahead, Procs) \in Int /\ Balance \in Int
<1>1. \A p \in Procs : Held[p] \in Int /\ Ahead[p] \in Int
  BY DEF QuotaTypeOK, Held, Ahead
<1>2. SumOf(Held, Procs) \in Int /\ SumOf(Ahead, Procs) \in Int
  BY <1>1, SumOfType, QuotaCacheAssumption DEF QuotaCacheAssumption
<1> QED  BY <1>1, <1>2 DEF Balance, QuotaTypeOK

\* What a process does to the sums.
LEMMA ProcessSums ==
    ASSUME QuotaTypeOK, QuotaTypeOK', NEW p \in Procs, OthersStay(p)
    PROVE  /\ Unrecorded' = Unrecorded + Held'[p] - Held[p]
           /\ SumOf(Ahead, Procs)' = SumOf(Ahead, Procs) + Ahead'[p] - Ahead[p]
<1> DEFINE held == Held'
           ahead == Ahead'
<1>1. \A q \in Procs : Held[q] \in Int /\ Ahead[q] \in Int /\ held[q] \in Int /\ ahead[q] \in Int
  <2>1. \A q \in Procs : held[q] \in Int /\ ahead[q] \in Int
    BY DEF QuotaTypeOK, Held, Ahead
  <2> QED  BY <2>1, ColumnTypes
<1>2. \A q \in Procs : q # p => held[q] = Held[q] /\ ahead[q] = Ahead[q]
  BY DEF OthersStay, Held, Ahead
<1>3. Unrecorded' = SumOf(held, Procs) /\ Unrecorded = SumOf(Held, Procs)
  <2>1. (Unrecorded = SumOf(Held, Procs))'
    BY HeldSum, PTL
  <2> QED  BY <2>1, HeldSum
<1> HIDE DEF held, ahead
<1>4. SumOf(held, Procs) = SumOf(Held, Procs) + held[p] - Held[p]
  BY <1>1, <1>2, SumOfUpdate, QuotaCacheAssumption DEF QuotaCacheAssumption
<1>5. SumOf(ahead, Procs) = SumOf(Ahead, Procs) + ahead[p] - Ahead[p]
  BY <1>1, <1>2, SumOfUpdate, QuotaCacheAssumption DEF QuotaCacheAssumption
<1> QED  BY <1>3, <1>4, <1>5 DEF held, ahead

\* Where nothing is outstanding, the row is the wallet and no half is missing.
LEMMA NothingOutstanding ==
    ASSUME QuotaTypeOK, Conserved, ~Outstanding
    PROVE  quota = Balance /\ SumOf(Ahead, Procs) = 0 /\ Unrecorded = 0
<1>1. \A p \in Procs : Held[p] = 0 /\ Ahead[p] = 0
  BY DEF QuotaTypeOK, Outstanding, Held, Ahead
<1>2. SumOf(Held, Procs) = 0 /\ SumOf(Ahead, Procs) = 0
  BY <1>1, SumOfZero, QuotaCacheAssumption DEF QuotaCacheAssumption
<1>3. store = 0 /\ flushing = 0 /\ lost = 0
  BY DEF Outstanding
<1> QED  BY <1>2, <1>3, HeldSum, ColumnTypes DEF Conserved, QuotaTypeOK

-----------------------------------------------------------------------------
\* What every step of a process has to show for the sum and for the hash.
Conserves(p) ==
    (quota' + store' + flushing' + lost') - (quota + store + flushing + lost)
      = (Balance' - Balance) + (Held'[p] - Held[p])

StaysBelow(p) ==
    shown' /\ ~suspect' =>
      \/ /\ shown /\ ~suspect
         /\ cached' - cached <= (Balance' - Balance) + (Ahead'[p] - Ahead[p])
      \/ /\ cached' = quota /\ ~Outstanding /\ Ahead'[p] = Ahead[p]
         /\ UNCHANGED <<given, taken>>

ProcessStep(p) ==
    /\ QuotaTypeOK' /\ Asking(p)' /\ OthersStay(p)
    /\ Conserves(p) /\ StaysBelow(p)

LEMMA ProcessStepKeeps ==
    ASSUME WalletInv, NEW p \in Procs, ProcessStep(p)
    PROVE  WalletInv'
<1>t. QuotaTypeOK /\ QuotaTypeOK' /\ OthersStay(p)
  BY DEF WalletInv, ProcessStep
<1>1. /\ Unrecorded' = Unrecorded + Held'[p] - Held[p]
      /\ SumOf(Ahead, Procs)' = SumOf(Ahead, Procs) + Ahead'[p] - Ahead[p]
  BY <1>t, ProcessSums
<1>2. /\ Held[p] \in Int /\ Ahead[p] \in Int /\ Unrecorded \in Int /\ SumOf(Ahead, Procs) \in Int
      /\ Balance \in Int
      /\ {quota, store, flushing, lost, cached} \subseteq Int
  BY <1>t, ColumnTypes, HeldSum DEF QuotaTypeOK
<1>3. /\ Held'[p] \in Int /\ Ahead'[p] \in Int /\ Balance' \in Int
      /\ {quota', store', flushing', lost', cached'} \subseteq Int
  BY <1>t DEF QuotaTypeOK, Held, Ahead, Balance
<1>4. \A q \in Procs : Asking(q)'
  BY DEF WalletInv, ProcessStep, OthersStay, Asking
<1>5. Conserved'
  <2>1. quota + store + flushing + lost = Balance + Unrecorded
    BY DEF WalletInv, Conserved
  <2>2. (quota' + store' + flushing' + lost') - (quota + store + flushing + lost)
          = (Balance' - Balance) + (Held'[p] - Held[p])
    BY DEF ProcessStep, Conserves
  <2>3. quota' + store' + flushing' + lost' = Balance' + Unrecorded'
    BY <1>1, <1>2, <1>3, <2>1, <2>2
  <2> QED  BY <2>3 DEF Conserved
<1>6. HashBelow'
  <2>1. SUFFICES ASSUME shown', ~suspect' PROVE cached' <= Balance' + SumOf(Ahead, Procs)'
    BY DEF HashBelow
  <2>2. CASE /\ shown /\ ~suspect
             /\ cached' - cached <= (Balance' - Balance) + (Ahead'[p] - Ahead[p])
    <3>1. cached <= Balance + SumOf(Ahead, Procs)
      BY <2>2 DEF WalletInv, HashBelow
    <3> QED  BY <1>1, <1>2, <1>3, <2>2, <3>1
  <2>3. CASE /\ cached' = quota /\ ~Outstanding /\ Ahead'[p] = Ahead[p]
             /\ UNCHANGED <<given, taken>>
    <3>1. quota = Balance /\ SumOf(Ahead, Procs) = 0
      BY <1>t, <2>3, NothingOutstanding DEF WalletInv
    <3>2. Balance' = Balance
      BY <2>3 DEF Balance
    <3> QED  BY <1>1, <1>2, <1>3, <2>3, <3>1, <3>2
  <2> QED  BY <2>1, <2>2, <2>3 DEF ProcessStep, StaysBelow
<1> QED  BY <1>t, <1>4, <1>5, <1>6 DEF WalletInv

\* What the columns show for one process.
LEMMA ColumnsAt ==
    ASSUME QuotaTypeOK, NEW p \in Procs
    PROVE  /\ pc[p] = "persist" => Held[p] = amount[p]
           /\ pc[p] # "persist" => Held[p] = 0
           /\ pc[p] = "compensate" => Ahead[p] = -amount[p]
           /\ pc[p] \notin {"compensate", "move"} => Ahead[p] = 0
           /\ pc[p] = "move" =>
                Ahead[p] = IF todo[p] = {"cache"} THEN -amount[p]
                           ELSE IF todo[p] = {"record"} THEN amount[p] ELSE 0
BY DEF QuotaTypeOK, Held, Ahead

LEMMA ColumnsAfter ==
    ASSUME QuotaTypeOK', NEW p \in Procs
    PROVE  /\ pc'[p] = "persist" => Held'[p] = amount'[p]
           /\ pc'[p] # "persist" => Held'[p] = 0
           /\ pc'[p] = "compensate" => Ahead'[p] = -amount'[p]
           /\ pc'[p] \notin {"compensate", "move"} => Ahead'[p] = 0
           /\ pc'[p] = "move" =>
                Ahead'[p] = IF todo'[p] = {"cache"} THEN -amount'[p]
                            ELSE IF todo'[p] = {"record"} THEN amount'[p] ELSE 0
BY DEF QuotaTypeOK, Held, Ahead

\* One step for each action of a process: its types, then the sum and the hash.
LEMMA ProcessInv ==
    ASSUME WalletInv, NEW p \in Procs, Process(p)
    PROVE  ProcessStep(p)
<1> USE QuotaCacheAssumption DEF QuotaCacheAssumption, places, cache, local, ledger, Goto,
        Fault, NoFault, Suspect, Halves
<1>t. QuotaTypeOK /\ Asking(p) /\ amount[p] \in Int
  BY DEF WalletInv, QuotaTypeOK
<1>n. {quota, store, flushing, lost, cached, given, taken} \subseteq Int
  BY DEF WalletInv, QuotaTypeOK
<1>1. CASE BeginReserve(p)
  <2>1. QuotaTypeOK' /\ Asking(p)' /\ OthersStay(p)
    BY <1>t, <1>1 DEF BeginReserve, QuotaTypeOK, Asking, OthersStay
  <2>2. Conserves(p)
    BY <1>t, <1>n, <1>1, <2>1, ColumnsAt, ColumnsAfter
    DEF BeginReserve, QuotaTypeOK, Conserves, Balance
  <2>3. StaysBelow(p)
    BY <1>t, <1>n, <1>1, <2>1, ColumnsAt, ColumnsAfter
    DEF BeginReserve, QuotaTypeOK, Asking, StaysBelow, Balance
  <2> QED  BY <2>1, <2>2, <2>3 DEF ProcessStep
<1>2. CASE Visit(p)
  <2>1. QuotaTypeOK' /\ Asking(p)' /\ OthersStay(p)
    BY <1>t, <1>2 DEF Visit, QuotaTypeOK, Asking, OthersStay
  <2>2. Conserves(p)
    BY <1>t, <1>n, <1>2, <2>1, ColumnsAt, ColumnsAfter DEF Visit, QuotaTypeOK, Conserves, Balance
  <2>3. StaysBelow(p)
    BY <1>t, <1>n, <1>2, <2>1, ColumnsAt, ColumnsAfter
    DEF Visit, QuotaTypeOK, Asking, StaysBelow, Balance
  <2> QED  BY <2>1, <2>2, <2>3 DEF ProcessStep
<1>3. CASE Reserve(p)
  <2>1. QuotaTypeOK' /\ Asking(p)' /\ OthersStay(p)
    BY <1>t, <1>3 DEF Reserve, QuotaTypeOK, Asking, OthersStay
  <2>2. Conserves(p)
    BY <1>t, <1>n, <1>3, <2>1, ColumnsAt, ColumnsAfter DEF Reserve, QuotaTypeOK, Conserves, Balance
  <2>3. StaysBelow(p)
    BY <1>t, <1>n, <1>3, <2>1, ColumnsAt, ColumnsAfter
    DEF Reserve, QuotaTypeOK, Asking, StaysBelow, Balance
  <2> QED  BY <2>1, <2>2, <2>3 DEF ProcessStep
<1>4. CASE Insufficient(p)
  <2>1. QuotaTypeOK' /\ Asking(p)' /\ OthersStay(p)
    BY <1>t, <1>4 DEF Insufficient, QuotaTypeOK, Asking, OthersStay
  <2>2. Conserves(p)
    BY <1>t, <1>n, <1>4, <2>1, ColumnsAt, ColumnsAfter
    DEF Insufficient, QuotaTypeOK, Conserves, Balance
  <2>3. StaysBelow(p)
    BY <1>t, <1>n, <1>4, <2>1, ColumnsAt, ColumnsAfter
    DEF Insufficient, QuotaTypeOK, Asking, StaysBelow, Balance
  <2> QED  BY <2>1, <2>2, <2>3 DEF ProcessStep
<1>5. CASE Miss(p)
  <2>1. QuotaTypeOK' /\ Asking(p)' /\ OthersStay(p)
    BY <1>t, <1>5 DEF Miss, QuotaTypeOK, Asking, OthersStay
  <2>2. Conserves(p)
    BY <1>t, <1>n, <1>5, <2>1, ColumnsAt, ColumnsAfter DEF Miss, QuotaTypeOK, Conserves, Balance
  <2>3. StaysBelow(p)
    BY <1>t, <1>n, <1>5, <2>1, ColumnsAt, ColumnsAfter
    DEF Miss, QuotaTypeOK, Asking, StaysBelow, Balance
  <2> QED  BY <2>1, <2>2, <2>3 DEF ProcessStep
<1>6. CASE Look(p)
  <2>1. QuotaTypeOK' /\ Asking(p)' /\ OthersStay(p)
    <3>1. CASE shown
      <4>1. \E place \in {"idle", "retry"} :
               pc' = [pc EXCEPT ![p] = place] /\ (place = "retry" => amount[p] # 0)
        BY <1>6, <3>1 DEF Look
      <4>2. pc[p] = "look" /\ UNCHANGED <<batch, places, cache, amount, got, todo, ledger, suspect, ops, failures>>
        BY <1>6, <3>1 DEF Look
      <4> QED  BY <1>t, <4>1, <4>2 DEF QuotaTypeOK, Asking, OthersStay
    <3>2. CASE ~shown
      BY <1>t, <1>6, <3>2 DEF Look, QuotaTypeOK, Asking, OthersStay
    <3> QED  BY <3>1, <3>2
  <2>2. Conserves(p)
    BY <1>t, <1>n, <1>6, <2>1, ColumnsAt, ColumnsAfter DEF Look, QuotaTypeOK, Conserves, Balance
  <2>3. StaysBelow(p)
    BY <1>t, <1>n, <1>6, <2>1, ColumnsAt, ColumnsAfter
    DEF Look, QuotaTypeOK, Asking, StaysBelow, Balance
  <2> QED  BY <2>1, <2>2, <2>3 DEF ProcessStep
<1>7. CASE FillQuota(p)
  <2>p. \E place \in {"idle", "retry", "fallback"} :
           pc' = [pc EXCEPT ![p] = place] /\ (place # "idle" => amount[p] # 0)
    BY <1>7 DEF FillQuota
  <2>g. /\ pc[p] = "fill" /\ got' = [got EXCEPT ![p] = 0]
        /\ UNCHANGED <<batch, places, amount, todo, ledger, ops>>
    BY <1>7 DEF FillQuota
  <2>f. failures' \in 0..MaxFailures
    BY <1>t, <1>7 DEF FillQuota, QuotaTypeOK
  <2>c. \/ UNCHANGED <<shown, cached, suspect>>
        \/ shown' = TRUE /\ cached' = got[p] /\ suspect' = (got[p] # quota \/ Outstanding)
    BY <1>7, Zenon DEF FillQuota
  <2>1. QuotaTypeOK' /\ Asking(p)' /\ OthersStay(p)
    <3>1. shown' \in BOOLEAN /\ suspect' \in BOOLEAN /\ (~shown' => cached' = 0)
      BY <1>t, <2>c, Zenon DEF QuotaTypeOK
    <3>2. cached' \in Int
      BY <1>t, <2>c DEF QuotaTypeOK
    <3> QED  BY <1>t, <2>p, <2>g, <2>f, <3>1, <3>2 DEF QuotaTypeOK, Asking, OthersStay
  <2>h. Held'[p] = Held[p] /\ Ahead'[p] = Ahead[p]
    BY <1>t, <2>1, <2>p, <2>g, ColumnsAt, ColumnsAfter DEF QuotaTypeOK
  <2>t. Held[p] \in Int /\ Ahead[p] \in Int
    BY <1>t, ColumnTypes
  <2>2. Conserves(p)
    BY <1>n, <2>g, <2>h, <2>t DEF Conserves, Balance
  <2>3. StaysBelow(p)
    <3>1. CASE UNCHANGED <<shown, cached, suspect>>
      BY <1>n, <2>g, <2>h, <2>t, <3>1 DEF StaysBelow, Balance
    <3>2. CASE shown' = TRUE /\ cached' = got[p] /\ suspect' = (got[p] # quota \/ Outstanding)
      <4>1. ~suspect' => cached' = quota /\ ~Outstanding
        BY <3>2, Zenon
      <4> QED  BY <2>g, <2>h, <4>1 DEF StaysBelow
    <3> QED  BY <2>c, <3>1, <3>2
  <2> QED  BY <2>1, <2>2, <2>3 DEF ProcessStep
<1>8. CASE Fallback(p)
  <2>1. QuotaTypeOK' /\ Asking(p)' /\ OthersStay(p)
    <3>1. suspect' \in BOOLEAN
      <4>1. suspect \in BOOLEAN
        BY <1>t DEF QuotaTypeOK
      <4> QED  BY Zenon, <1>8, <4>1 DEF Fallback
    <3>2. quota' \in Int /\ taken' \in Nat
      BY <1>t, <1>8 DEF Fallback, QuotaTypeOK, Asking
    <3> QED  BY <1>t, <1>8, <3>1, <3>2 DEF Fallback, QuotaTypeOK, Asking, OthersStay
  <2>2. Conserves(p)
    BY <1>t, <1>n, <1>8, <2>1, ColumnsAt, ColumnsAfter DEF Fallback, QuotaTypeOK, Conserves, Balance
  <2>3. StaysBelow(p)
    BY <1>t, <1>n, <1>8, <2>1, ColumnsAt, ColumnsAfter
    DEF Fallback, QuotaTypeOK, Asking, StaysBelow, Balance
  <2> QED  BY <2>1, <2>2, <2>3 DEF ProcessStep
<1>9. CASE Persist(p)
  <2>1. QuotaTypeOK' /\ Asking(p)' /\ OthersStay(p)
    BY <1>t, <1>9 DEF Persist, Add, QuotaTypeOK, Asking, OthersStay
  <2>2. Conserves(p)
    BY <1>t, <1>n, <1>9, <2>1, ColumnsAt, ColumnsAfter
    DEF Persist, Add, QuotaTypeOK, Conserves, Balance
  <2>3. StaysBelow(p)
    BY <1>t, <1>n, <1>9, <2>1, ColumnsAt, ColumnsAfter
    DEF Persist, Add, QuotaTypeOK, Asking, StaysBelow, Balance
  <2> QED  BY <2>1, <2>2, <2>3 DEF ProcessStep
<1>10. CASE PersistFails(p)
  <2>1. QuotaTypeOK' /\ Asking(p)' /\ OthersStay(p)
    BY <1>t, <1>10 DEF PersistFails, QuotaTypeOK, Asking, OthersStay
  <2>2. Conserves(p)
    BY <1>t, <1>n, <1>10, <2>1, ColumnsAt, ColumnsAfter
    DEF PersistFails, QuotaTypeOK, Conserves, Balance
  <2>3. StaysBelow(p)
    BY <1>t, <1>n, <1>10, <2>1, ColumnsAt, ColumnsAfter
    DEF PersistFails, QuotaTypeOK, Asking, StaysBelow, Balance
  <2> QED  BY <2>1, <2>2, <2>3 DEF ProcessStep
<1>11. CASE Compensate(p)
  <2>1. QuotaTypeOK' /\ Asking(p)' /\ OthersStay(p)
    BY <1>t, <1>11 DEF Compensate, ApplyDelta, QuotaTypeOK, Asking, OthersStay
  <2>2. Conserves(p)
    BY <1>t, <1>n, <1>11, <2>1, ColumnsAt, ColumnsAfter
    DEF Compensate, ApplyDelta, QuotaTypeOK, Conserves, Balance
  <2>3. StaysBelow(p)
    BY <1>t, <1>n, <1>11, <2>1, ColumnsAt, ColumnsAfter
    DEF Compensate, ApplyDelta, QuotaTypeOK, Asking, StaysBelow, Balance
  <2> QED  BY <2>1, <2>2, <2>3 DEF ProcessStep
<1>12. CASE BeginMove(p)
  <2>1. QuotaTypeOK' /\ Asking(p)' /\ OthersStay(p)
    BY <1>t, <1>12 DEF BeginMove, QuotaTypeOK, Asking, OthersStay
  <2>g. /\ pc[p] = "idle" /\ pc'[p] = "move" /\ todo'[p] = Halves
        /\ UNCHANGED <<quota, store, flushing, shown, cached, given, taken, lost, suspect>>
    BY <1>t, <1>12 DEF BeginMove, QuotaTypeOK
  <2>h. Held[p] = 0 /\ Ahead[p] = 0 /\ Held'[p] = 0 /\ Ahead'[p] = 0
    BY <1>t, <2>1, <2>g, ColumnsAt, ColumnsAfter
  <2>2. Conserves(p)
    BY <1>n, <2>g, <2>h DEF Conserves, Balance
  <2>3. StaysBelow(p)
    BY <1>n, <2>g, <2>h DEF StaysBelow, Balance
  <2> QED  BY <2>1, <2>2, <2>3 DEF ProcessStep
<1>13. CASE MoveCache(p)
  <2>1. QuotaTypeOK' /\ Asking(p)' /\ OthersStay(p)
    BY <1>t, <1>13 DEF MoveCache, ApplyDelta, HalfDone, QuotaTypeOK, Asking, OthersStay
  <2>2. Conserves(p)
    BY <1>t, <1>n, <1>13, <2>1, ColumnsAt, ColumnsAfter
    DEF MoveCache, ApplyDelta, HalfDone, QuotaTypeOK, Conserves, Balance
  <2>3. StaysBelow(p)
    BY <1>t, <1>n, <1>13, <2>1, ColumnsAt, ColumnsAfter
    DEF MoveCache, ApplyDelta, HalfDone, QuotaTypeOK, Asking, StaysBelow, Balance
  <2> QED  BY <2>1, <2>2, <2>3 DEF ProcessStep
<1>14. CASE MoveRecord(p)
  <2>g. /\ "record" \in todo[p] /\ todo' = [todo EXCEPT ![p] = @ \ {"record"}]
        /\ pc' = [pc EXCEPT ![p] = IF todo[p] = {"record"} THEN "idle" ELSE @]
        /\ UNCHANGED <<batch, cache, amount, got, taken, lost, ops>>
        /\ failures' \in 0..MaxFailures /\ flushing' = flushing
    BY <1>t, <1>14 DEF MoveRecord, HalfDone, Add, QuotaTypeOK
  <2>r. \/ /\ \/ batch /\ store' = store + amount[p] /\ quota' = quota
              \/ quota' = quota + amount[p] /\ store' = store
           /\ given' = given + amount[p] /\ suspect' = suspect
        \/ /\ quota' = quota /\ store' = store /\ given' = given
           /\ suspect' = (suspect \/ amount[p] > 0)
    BY <1>14 DEF MoveRecord, Add
  <2>1. QuotaTypeOK' /\ Asking(p)' /\ OthersStay(p)
    <3>1. suspect' \in BOOLEAN
      BY <1>t, <2>r DEF QuotaTypeOK
    <3>2. /\ quota' \in Int /\ store' \in Int /\ given' \in Int
          /\ ~batch' => store' = 0 /\ flushing' = 0
      BY <1>t, <2>g, <2>r DEF QuotaTypeOK
    <3>3. /\ pc' \in [Procs -> {"idle", "ask", "look", "fill", "retry", "fallback", "persist",
                               "compensate", "move"}]
          /\ todo' \in [Procs -> SUBSET Halves]
          /\ \A q \in Procs : todo'[q] # {} <=> pc'[q] = "move"
          /\ Asking(p)' /\ OthersStay(p)
      BY <1>t, <2>g DEF QuotaTypeOK, Asking, OthersStay
    <3> QED  BY <1>t, <2>g, <3>1, <3>2, <3>3 DEF QuotaTypeOK
  <2>h. /\ Held'[p] = Held[p]
        /\ \/ Ahead[p] = 0 /\ Ahead'[p] = -amount[p]
           \/ Ahead[p] = amount[p] /\ Ahead'[p] = 0
    BY <1>t, <2>1, <2>g, ColumnsAt, ColumnsAfter DEF QuotaTypeOK
  <2>t. Held[p] \in Int
    BY <1>t, ColumnTypes
  <2>2. Conserves(p)
    BY <1>t, <1>n, <2>g, <2>r, <2>h, <2>t DEF Conserves, Balance
  <2>3. StaysBelow(p)
    <3>1. SUFFICES ASSUME shown', ~suspect'
                   PROVE  /\ shown /\ ~suspect
                          /\ cached' - cached <= (Balance' - Balance) + (Ahead'[p] - Ahead[p])
      BY Zenon DEF StaysBelow
    <3>2. shown' = shown /\ cached' = cached
      BY <2>g
    <3>b. shown /\ ~suspect
      <4>1. suspect' = suspect \/ suspect' = (suspect \/ amount[p] > 0)
        BY <2>r
      <4>2. ~suspect
        BY <3>1, <4>1
      <4> QED  BY <3>1, <3>2, <4>2
    <3>3. \/ given' = given + amount[p]
          \/ given' = given /\ ~(amount[p] > 0)
      BY <2>r, <3>1, Zenon
    <3>4. Ahead'[p] - Ahead[p] = -amount[p]
      BY <1>t, <2>h
    <3> QED  BY <1>t, <1>n, <2>g, <3>2, <3>b, <3>3, <3>4 DEF Balance
  <2> QED  BY <2>1, <2>2, <2>3 DEF ProcessStep
<1> QED
  BY <1>1, <1>2, <1>3, <1>4, <1>5, <1>6, <1>7, <1>8, <1>9, <1>10, <1>11, <1>12, <1>13, <1>14
  DEF Process

-----------------------------------------------------------------------------
\* The batch updater, the expiry of the hash and crashes.
LEMMA ColumnsStay ==
    ASSUME UNCHANGED <<pc, amount, todo>>
    PROVE  Unrecorded' = Unrecorded /\ SumOf(Ahead, Procs)' = SumOf(Ahead, Procs)
<1>1. Held' = Held /\ Ahead' = Ahead
  BY DEF Held, Ahead
<1>2. (Unrecorded = SumOf(Held, Procs))'
  BY HeldSum, PTL
<1>3. SumOf(Held, Procs)' = SumOf(Held, Procs) /\ SumOf(Ahead, Procs)' = SumOf(Ahead, Procs)
  BY <1>1
<1> QED  BY <1>2, <1>3, HeldSum

LEMMA UpdaterInv ==
    ASSUME WalletInv, Swap \/ ApplyBatch \/ QuotaExpires
    PROVE  WalletInv'
<1> USE DEF places, cache, local, ledger, Fault, NoFault
<1>t. QuotaTypeOK /\ Unrecorded \in Int /\ SumOf(Ahead, Procs) \in Int /\ Balance \in Int
  BY ColumnTypes, HeldSum DEF WalletInv
<1>1. UNCHANGED <<local, batch, given, taken>>
  BY DEF Swap, ApplyBatch, QuotaExpires
<1>2. /\ Unrecorded' = Unrecorded /\ SumOf(Ahead, Procs)' = SumOf(Ahead, Procs)
      /\ Balance' = Balance
  BY <1>1, ColumnsStay DEF Balance
<1>3. \A p \in Procs : Asking(p)'
  BY <1>1 DEF WalletInv, Asking
<1>4. CASE Swap
  <2>1. QuotaTypeOK'
    BY <1>t, <1>4 DEF Swap, QuotaTypeOK
  <2>2. Conserved'
    BY <1>t, <1>2, <1>4 DEF Swap, QuotaTypeOK, WalletInv, Conserved
  <2>3. HashBelow'
    BY <1>2, <1>4 DEF Swap, WalletInv, HashBelow
  <2> QED  BY <1>3, <2>1, <2>2, <2>3 DEF WalletInv
<1>5. CASE ApplyBatch
  <2>n. {quota, store, flushing, lost} \subseteq Int
    BY <1>t DEF QuotaTypeOK
  <2>q. \/ quota' = quota + flushing /\ lost' = lost
        \/ quota' = quota /\ lost' = lost + flushing
    BY <1>5 DEF ApplyBatch
  <2>f. flushing' = 0 /\ store' = store
    BY <1>5 DEF ApplyBatch
  <2>1. quota' + lost' = quota + lost + flushing /\ quota' \in Int /\ lost' \in Int
    BY <2>n, <2>q
  <2>b. suspect' = suspect \/ suspect' = TRUE
    BY <1>5 DEF ApplyBatch
  <2>2. QuotaTypeOK'
    <3>1. failures' \in 0..MaxFailures
      BY <1>t, <1>5, QuotaCacheAssumption DEF ApplyBatch, QuotaTypeOK, QuotaCacheAssumption
    <3>2. suspect' \in BOOLEAN
      BY <1>t, <2>b DEF QuotaTypeOK
    <3>3. UNCHANGED <<batch, shown, cached, ops>>
      BY <1>5 DEF ApplyBatch
    <3> QED  BY <1>t, <1>1, <2>1, <2>f, <3>1, <3>2, <3>3 DEF QuotaTypeOK
  <2>3. Conserved'
    <3>1. quota + store + flushing + lost = Balance + Unrecorded
      BY DEF WalletInv, Conserved
    <3>2. quota' + store' + flushing' + lost' = Balance + Unrecorded
      BY <1>t, <2>n, <2>1, <2>f, <3>1
    <3> QED  BY <1>2, <3>2 DEF Conserved
  <2>4. HashBelow'
    <3>1. shown' = shown /\ cached' = cached
      BY <1>5 DEF ApplyBatch
    <3>2. shown' /\ ~suspect' => cached <= Balance + SumOf(Ahead, Procs)
      BY <2>b, <3>1 DEF WalletInv, HashBelow
    <3> QED  BY <1>2, <3>1, <3>2 DEF HashBelow
  <2> QED  BY <1>3, <2>2, <2>3, <2>4 DEF WalletInv
<1>6. CASE QuotaExpires
  <2>1. QuotaTypeOK'
    <3>1. /\ shown' = FALSE /\ cached' = 0
          /\ UNCHANGED <<batch, quota, store, flushing, pc, amount, got, todo, given, taken, lost,
                         suspect, ops, failures>>
      BY <1>6 DEF QuotaExpires
    <3>2. shown' \in BOOLEAN
      BY <3>1
    <3> QED  BY <1>t, <3>1, <3>2 DEF QuotaTypeOK
  <2>2. Conserved'
    BY <1>2, <1>6 DEF QuotaExpires, WalletInv, Conserved
  <2>3. HashBelow'
    BY <1>6 DEF QuotaExpires, HashBelow
  <2> QED  BY <1>3, <2>1, <2>2, <2>3 DEF WalletInv
<1> QED  BY <1>4, <1>5, <1>6

\* After a crash nothing is held and no half is missing; what was held has been
\* given back.
LEMMA CrashInv ==
    ASSUME WalletInv, Crash
    PROVE  WalletInv'
<1> USE DEF places, cache, local, ledger, Fault
<1>t. QuotaTypeOK /\ Conserved /\ Unrecorded \in Int
  BY ColumnTypes, HeldSum DEF WalletInv
<1>1. QuotaTypeOK'
  <2>1. suspect' \in BOOLEAN
    <3>1. suspect \in BOOLEAN
      BY <1>t DEF QuotaTypeOK
    <3> QED  BY <3>1, Zenon DEF Crash, Suspect
  <2>2. given' \in Int /\ lost' \in Int /\ failures' \in 0..MaxFailures
    BY <1>t, QuotaCacheAssumption DEF Crash, QuotaTypeOK, QuotaCacheAssumption
  <2> QED  BY <1>t, <2>1, <2>2 DEF Crash, QuotaTypeOK
<1>2. \A p \in Procs : pc'[p] = "idle"
  BY DEF Crash
<1>3. Unrecorded' = 0 /\ SumOf(Ahead, Procs)' = 0
  <2> DEFINE held == Held'
             ahead == Ahead'
  <2>1. \A p \in Procs : held[p] = 0 /\ ahead[p] = 0
    BY <1>1, <1>2, ColumnsAfter
  <2>2. (Unrecorded = SumOf(Held, Procs))'
    BY HeldSum, PTL
  <2>3. Unrecorded' = SumOf(held, Procs)
    BY <2>2
  <2> HIDE DEF held, ahead
  <2>4. SumOf(held, Procs) = 0 /\ SumOf(ahead, Procs) = 0
    BY <2>1, SumOfZero, QuotaCacheAssumption DEF QuotaCacheAssumption
  <2> QED  BY <2>3, <2>4 DEF ahead
<1>4. \A p \in Procs : Asking(p)'
  BY <1>2 DEF Asking
<1>5. Conserved'
  <2>1. quota + store + flushing + lost = given - taken + Unrecorded
    BY <1>t DEF Conserved, Balance
  <2>2. /\ quota' = quota /\ store' = 0 /\ flushing' = 0 /\ lost' = lost + store + flushing
        /\ given' = given + Unrecorded /\ taken' = taken
    BY DEF Crash
  <2>3. quota' + store' + flushing' + lost' = given' - taken' + 0
    BY <1>t, <2>1, <2>2 DEF QuotaTypeOK
  <2> QED  BY <1>3, <2>3 DEF Conserved, Balance
<1>6. HashBelow'
  <2>1. SUFFICES ASSUME shown', ~suspect' PROVE cached' <= Balance' + SumOf(Ahead, Procs)'
    BY DEF HashBelow
  <2>2. suspect' = (suspect \/ Outstanding)
    BY DEF Crash, Suspect
  <2>3. ~suspect /\ ~Outstanding
    BY <2>1, <2>2, Zenon
  <2>4. SumOf(Ahead, Procs) = 0 /\ Unrecorded = 0
    BY <1>t, <2>3, NothingOutstanding
  <2>5. /\ cached' = cached /\ shown' = shown
        /\ given' = given + Unrecorded /\ taken' = taken
    BY DEF Crash
  <2>6. cached <= Balance + SumOf(Ahead, Procs)
    BY <2>1, <2>3, <2>5 DEF WalletInv, HashBelow
  <2> QED  BY <1>t, <1>3, <2>4, <2>5, <2>6 DEF Balance, QuotaTypeOK
<1> QED  BY <1>1, <1>4, <1>5, <1>6 DEF WalletInv

LEMMA WalletInit == QuotaInit => WalletInv
<1> SUFFICES ASSUME QuotaInit PROVE WalletInv
  OBVIOUS
<1>1. QuotaTypeOK
  <2>1. 0 \in 0..MaxOps /\ 0 \in 0..MaxFailures /\ Initial \in Int
    BY QuotaCacheAssumption DEF QuotaCacheAssumption
  <2>2. batch \in BOOLEAN /\ shown \in BOOLEAN /\ suspect \in BOOLEAN
    BY DEF QuotaInit
  <2>3. \A p \in Procs : todo[p] = {} /\ pc[p] = "idle"
    BY DEF QuotaInit
  <2> QED  BY <2>1, <2>2, <2>3 DEF QuotaInit, QuotaTypeOK
<1>2. \A p \in Procs : pc[p] = "idle"
  BY DEF QuotaInit
<1>3. Unrecorded = 0
  <2>1. \A p \in Procs : Held[p] = 0
    BY <1>1, <1>2, ColumnsAt
  <2> QED  BY <2>1, HeldSum, SumOfZero, QuotaCacheAssumption DEF QuotaCacheAssumption
<1>4. Conserved
  BY <1>3, QuotaCacheAssumption DEF QuotaInit, Conserved, Balance, QuotaCacheAssumption
<1> QED  BY <1>1, <1>2, <1>4 DEF WalletInv, Asking, HashBelow, QuotaInit

LEMMA WalletNext == WalletInv /\ [QuotaNext]_quotaVars => WalletInv'
<1> SUFFICES ASSUME WalletInv, [QuotaNext]_quotaVars PROVE WalletInv'
  OBVIOUS
<1>1. ASSUME NEW p \in Procs, Process(p) PROVE WalletInv'
  BY <1>1, ProcessInv, ProcessStepKeeps
<1>2. CASE UNCHANGED quotaVars
  <2>1. UNCHANGED <<batch, quota, store, flushing, shown, cached, pc, amount, got, todo, given, taken,
                    lost, suspect, ops, failures>>
    BY <1>2 DEF quotaVars, places, cache, local, ledger
  <2>2. Unrecorded' = Unrecorded /\ SumOf(Ahead, Procs)' = SumOf(Ahead, Procs)
    BY <2>1, ColumnsStay
  <2> QED
    BY <2>1, <2>2 DEF WalletInv, QuotaTypeOK, Asking, Conserved, HashBelow, Balance
<1> QED  BY <1>1, <1>2, UpdaterInv, CrashInv DEF QuotaNext

THEOREM WalletInvariance == QuotaSpec => []WalletInv
BY WalletInit, WalletNext, PTL DEF QuotaSpec

\* The type of the wallet's variables, whatever the requests and tasks, amounts
\* and bounds.
THEOREM WalletTypeCorrect == QuotaSpec => []QuotaTypeOK
<1>1. WalletInv => QuotaTypeOK
  BY DEF WalletInv
<1> QED  BY <1>1, WalletInvariance, PTL

\* Row, store, flush and losses add up to the wallet at every moment, however
\* many requests, refunds, charges and updaters interleave: persistUserQuotaDelta
\* and batchUpdate neither drop a movement silently nor apply one twice.
THEOREM WalletConserved == QuotaSpec => []Conserved
<1>1. WalletInv => Conserved
  BY DEF WalletInv
<1> QED  BY <1>1, WalletInvariance, PTL

-----------------------------------------------------------------------------
\* A hash that is not ahead of the record shows at most the wallet.
LEMMA BelowWallet ==
    ASSUME WalletInv, shown, ~suspect, ~HashAhead
    PROVE  cached <= Balance
<1>t. QuotaTypeOK
  BY DEF WalletInv
<1> DEFINE none == [q \in Procs |-> 0]
<1>1. \A q \in Procs : Ahead[q] \in Int /\ none[q] \in Int /\ Ahead[q] <= none[q]
  <2>1. SUFFICES ASSUME NEW q \in Procs PROVE Ahead[q] <= 0
    BY <1>t, ColumnTypes
  <2>2. amount[q] \in Int /\ Asking(q)
    BY <1>t DEF QuotaTypeOK, WalletInv
  <2>3. CASE pc[q] = "move"
    <3>1. /\ todo[q] = {"cache"} => amount[q] >= 0
          /\ todo[q] = {"record"} => amount[q] <= 0
      BY <2>2 DEF HashAhead
    <3> QED  BY <1>t, <2>2, <2>3, <3>1, ColumnsAt
  <2>4. CASE pc[q] # "move"
    BY <1>t, <2>2, <2>4, ColumnsAt DEF Asking
  <2> QED  BY <2>3, <2>4
<1>2. \A q \in Procs : none[q] = 0
  OBVIOUS
<1> HIDE DEF none
<1>3. SumOf(Ahead, Procs) <= SumOf(none, Procs) /\ SumOf(none, Procs) = 0
  BY <1>1, <1>2, SumOfMonotone, SumOfZero, QuotaCacheAssumption DEF QuotaCacheAssumption
<1> QED  BY <1>t, <1>3, ColumnTypes DEF WalletInv, HashBelow, QuotaTypeOK

LEMMA StepIsCell == WalletInv /\ WalletInv' /\ [QuotaNext]_quotaVars => [Cell!Next]_(Cell!vars)
<1> SUFFICES ASSUME WalletInv, WalletInv', [QuotaNext]_quotaVars PROVE [Cell!Next]_(Cell!vars)
  OBVIOUS
<1> USE DEF places, cache, local, ledger
<1>t. QuotaTypeOK /\ QuotaTypeOK' /\ given' \in Int /\ suspect' \in BOOLEAN
  BY DEF WalletInv, QuotaTypeOK
<1>m. ASSUME taken' = taken PROVE [Cell!Next]_(Cell!vars)
  BY <1>t, <1>m DEF Cell!Next, Cell!Move
<1>1. ASSUME NEW p \in Procs, Reserve(p) PROVE [Cell!Next]_(Cell!vars)
  <2>1. /\ shown /\ cached >= amount[p] /\ taken' = taken + amount[p] /\ given' = given
        /\ suspect' = (suspect \/ HashAhead) /\ amount[p] > 0
    BY <1>1 DEF Reserve, Suspect, WalletInv, Asking
  <2>2. ASSUME ~suspect' PROVE given - taken' >= 0
    <3>1. ~suspect /\ ~HashAhead
      BY <2>1, <2>2, Zenon
    <3>2. cached <= Balance
      BY <2>1, <3>1, BelowWallet
    <3> QED  BY <1>t, <2>1, <3>2 DEF Balance, QuotaTypeOK
  <2>3. taken' > taken
    BY <1>t, <2>1 DEF QuotaTypeOK
  <2>4. Cell!Reserve
    BY <1>t, <2>1, <2>2, <2>3 DEF Cell!Reserve
  <2> QED  BY <2>4 DEF Cell!Next
<1>2. ASSUME NEW p \in Procs, Fallback(p) PROVE [Cell!Next]_(Cell!vars)
  <2>1. CASE quota >= amount[p]
    <3>1. /\ taken' = taken + amount[p] /\ given' = given
          /\ suspect' = (suspect \/ shown \/ Outstanding) /\ amount[p] > 0
      BY <1>2, <2>1, Zenon DEF Fallback, Suspect, WalletInv, Asking
    <3>2. ASSUME ~suspect' PROVE given - taken' >= 0
      <4>1. ~Outstanding
        BY <3>1, <3>2, Zenon
      <4>2. quota = Balance
        BY <1>t, <4>1, NothingOutstanding DEF WalletInv
      <4> QED  BY <1>t, <2>1, <3>1, <4>2 DEF Balance, QuotaTypeOK
    <3>3. taken' > taken
      BY <1>t, <3>1 DEF QuotaTypeOK
    <3>4. Cell!Reserve
      BY <1>t, <3>1, <3>2, <3>3 DEF Cell!Reserve
    <3> QED  BY <3>4 DEF Cell!Next
  <2>2. CASE ~(quota >= amount[p])
    BY <1>2, <2>2, <1>m DEF Fallback
  <2> QED  BY <2>1, <2>2
<1>3. ASSUME NEW p \in Procs, Process(p), ~Reserve(p), ~Fallback(p) PROVE taken' = taken
  BY <1>3 DEF Process, BeginReserve, Visit, Insufficient, Miss, Look, FillQuota, Persist,
              PersistFails, Compensate, BeginMove, MoveCache, MoveRecord
<1>4. ASSUME Swap \/ ApplyBatch \/ QuotaExpires \/ Crash \/ UNCHANGED quotaVars PROVE taken' = taken
  BY <1>4 DEF Swap, ApplyBatch, QuotaExpires, Crash, quotaVars
<1> QED  BY <1>m, <1>1, <1>2, <1>3, <1>4 DEF QuotaNext

\* The wallet, with its hash, its row and its batch store, implements one cell: a
\* reservation takes only what the wallet has, as long as nothing happened that
\* may leave the hash above it.
THEOREM CellImplemented == QuotaSpec => ImplementsCell
<1>1. QuotaInit => Cell!Init
  BY QuotaCacheAssumption DEF QuotaInit, Cell!Init, QuotaCacheAssumption
<1> QED
  BY <1>1, WalletInvariance, StepIsCell, PTL DEF QuotaSpec, ImplementsCell, Cell!Spec
=============================================================================
