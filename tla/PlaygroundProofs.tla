-------------------------- MODULE PlaygroundProofs --------------------------
(***************************************************************************)
(* Theorems about the conversation of the playground, for any number of    *)
(* requests and messages.                                                  *)
(***************************************************************************)
EXTENDS Playground, SequenceTheorems, TLAPS

-----------------------------------------------------------------------------
(* Lists of messages.                                                      *)

\* A list whose messages have different keys, none above k.
Sound(list, k) ==
    /\ list \in Seq(Message)
    /\ \A i \in DOMAIN list : list[i].key <= k
    /\ \A i, j \in DOMAIN list : list[i].key = list[j].key => i = j

\* Only the last message waits, and each shows its own answer.
Good(list) == \A i \in DOMAIN list :
    /\ list[i].parts \subseteq {list[i].of}
    /\ Stuck(list[i]) => i = Len(list)

\* No message waits.
Ended(list) == \A i \in DOMAIN list :
    /\ list[i].parts \subseteq {list[i].of}
    /\ ~Stuck(list[i])

LEMMA KeyIsNumber == \A m \in Message : m.key \in Int
<1>1. MaxKeys \in Nat BY PlaygroundAssumption
<1>2. QED BY <1>1 DEF Message

\* A new message has a new key.
LEMMA AddSound ==
    ASSUME NEW list, NEW k \in Nat, Sound(list, k), NEW m \in Message, m.key = k + 1
    PROVE  /\ Sound(Append(list, m), k + 1)
           /\ Append(list, m) # <<>>
           /\ Len(Append(list, m)) = Len(list) + 1
           /\ Append(list, m)[Len(list) + 1] = m
           /\ \A i \in DOMAIN list : Append(list, m)[i] = list[i]
           /\ DOMAIN list = 1..Len(list) /\ Len(list) \in Nat
<1>1. list \in Seq(Message) BY DEF Sound
<1>2. /\ Append(list, m) \in Seq(Message)
      /\ Len(Append(list, m)) = Len(list) + 1
      /\ Append(list, m)[Len(list) + 1] = m
      /\ \A i \in 1..Len(list) : Append(list, m)[i] = list[i]
      /\ DOMAIN list = 1..Len(list) /\ Len(list) \in Nat
      /\ DOMAIN Append(list, m) = 1..(Len(list) + 1)
  BY <1>1
<1>3. \A i \in 1..Len(list) : list[i].key <= k /\ list[i].key \in Int
  <2>1. \A i \in 1..Len(list) : list[i] \in Message BY <1>1
  <2>2. QED BY <2>1, <1>2, KeyIsNumber DEF Sound
<1>4. \A i \in DOMAIN Append(list, m) : Append(list, m)[i].key <= k + 1
  BY <1>2, <1>3
<1>5. ASSUME NEW i \in DOMAIN Append(list, m), NEW j \in DOMAIN Append(list, m),
             Append(list, m)[i].key = Append(list, m)[j].key
      PROVE  i = j
  <2>1. CASE i = Len(list) + 1 /\ j = Len(list) + 1
    BY <2>1
  <2>2. CASE i \in 1..Len(list) /\ j \in 1..Len(list)
    BY <2>2, <1>2, <1>5 DEF Sound
  <2>3. CASE i \in 1..Len(list) /\ j = Len(list) + 1
    BY <2>3, <1>2, <1>3, <1>5
  <2>4. CASE i = Len(list) + 1 /\ j \in 1..Len(list)
    BY <2>4, <1>2, <1>3, <1>5
  <2>5. QED BY <2>1, <2>2, <2>3, <2>4, <1>2
<1>6. Append(list, m) # <<>> BY <1>2
<1>7. QED BY <1>2, <1>4, <1>5, <1>6 DEF Sound

\* Messages taken from a list, in any order that takes none twice.
LEMMA ChosenSound ==
    ASSUME NEW list, NEW k \in Nat, Sound(list, k),
           NEW part \in Seq(Message), NEW at,
           \A i \in DOMAIN part : at[i] \in DOMAIN list /\ part[i] = list[at[i]],
           \A i, j \in DOMAIN part : at[i] = at[j] => i = j
    PROVE  Sound(part, k) /\ (Ended(list) => Ended(part))
<1>1. \A i \in DOMAIN part : part[i].key <= k BY DEF Sound
<1>2. ASSUME NEW i \in DOMAIN part, NEW j \in DOMAIN part, part[i].key = part[j].key
      PROVE  i = j
  <2>1. at[i] = at[j] BY <1>2 DEF Sound
  <2>2. QED BY <2>1
<1>3. ASSUME Ended(list) PROVE Ended(part) BY <1>3 DEF Ended
<1>4. QED BY <1>1, <1>2, <1>3 DEF Sound

LEMMA PrefixSound ==
    ASSUME NEW list, NEW k \in Nat, Sound(list, k), NEW n \in 0..Len(list)
    PROVE  /\ Sound(SubSeq(list, 1, n), k)
           /\ Ended(list) => Ended(SubSeq(list, 1, n))
<1> DEFINE part == SubSeq(list, 1, n)
<1> DEFINE at == [i \in 1..n |-> i]
<1>1. list \in Seq(Message) /\ DOMAIN list = 1..Len(list) /\ Len(list) \in Nat BY DEF Sound
<1>2. /\ part \in Seq(Message) /\ DOMAIN part = 1..n
      /\ \A i \in 1..n : part[i] = list[i]
  BY <1>1
<1>3. /\ \A i \in DOMAIN part : at[i] \in DOMAIN list /\ part[i] = list[at[i]]
      /\ \A i, j \in DOMAIN part : at[i] = at[j] => i = j
  BY <1>1, <1>2
<1>4. QED
  <2> HIDE DEF part, at
  <2>1. part \in Seq(Message) BY <1>2
  <2>2. Sound(part, k) /\ (Ended(list) => Ended(part)) BY <2>1, <1>3, ChosenSound
  <2>3. QED BY <2>2 DEF part

LEMMA RemoveSound ==
    ASSUME NEW list, NEW k \in Nat, Sound(list, k), NEW n \in DOMAIN list
    PROVE  /\ Sound(RemoveAt(list, n), k)
           /\ Ended(list) => Ended(RemoveAt(list, n))
           /\ \A i \in DOMAIN RemoveAt(list, n) :
                  \E j \in DOMAIN list : RemoveAt(list, n)[i] = list[j]
           /\ n # Len(list) => /\ RemoveAt(list, n) # <<>>
                               /\ RemoveAt(list, n)[Len(RemoveAt(list, n))] = list[Len(list)]
           /\ Good(list) => Good(RemoveAt(list, n))
<1> DEFINE part == RemoveAt(list, n)
<1> DEFINE at == [i \in 1..(Len(list) - 1) |-> IF i < n THEN i ELSE i + 1]
<1> DEFINE left == SubSeq(list, 1, n - 1)
<1> DEFINE right == SubSeq(list, n + 1, Len(list))
<1>1. list \in Seq(Message) /\ DOMAIN list = 1..Len(list) /\ Len(list) \in Nat BY DEF Sound
<1>2. /\ left \in Seq(Message) /\ Len(left) = n - 1 
      /\ \A i \in 1..(n - 1) : left[i] = list[i]
  BY <1>1
<1>3. /\ right \in Seq(Message) /\ Len(right) = Len(list) - n
      /\ \A i \in 1..(Len(list) - n) : right[i] = list[n + i]
  BY <1>1
<1>4. part = left \o right BY DEF RemoveAt
<1> HIDE DEF part, left, right
<1>5. /\ part \in Seq(Message) /\ Len(part) = Len(list) - 1 /\ DOMAIN part = 1..(Len(list) - 1)
      /\ \A i \in 1..(Len(list) - 1) : part[i] = IF i <= n - 1 THEN left[i] ELSE right[i - (n - 1)]
  <2>1. left \in Seq(Message) /\ right \in Seq(Message) BY <1>2, <1>3
  <2>2. /\ part \in Seq(Message) /\ Len(part) = Len(left) + Len(right)
        /\ \A i \in 1..(Len(left) + Len(right)) :
               part[i] = IF i <= Len(left) THEN left[i] ELSE right[i - Len(left)]
    BY <2>1, <1>4, ConcatProperties
  <2>3. Len(left) = n - 1 /\ Len(left) + Len(right) = Len(list) - 1 BY <1>1, <1>2, <1>3
  <2>4. DOMAIN part = 1..Len(part) BY <2>2
  <2>5. QED BY <2>2, <2>3, <2>4
<1>6. \A i \in 1..(Len(list) - 1) : at[i] \in DOMAIN list /\ part[i] = list[at[i]]
  <2>1. ASSUME NEW i \in 1..(Len(list) - 1), i < n PROVE at[i] \in DOMAIN list /\ part[i] = list[at[i]]
    BY <2>1, <1>1, <1>2, <1>5
  <2>2. ASSUME NEW i \in 1..(Len(list) - 1), ~(i < n) PROVE at[i] \in DOMAIN list /\ part[i] = list[at[i]]
    <3>1. i - (n - 1) \in 1..(Len(list) - n) /\ n + (i - (n - 1)) = i + 1 BY <2>2, <1>1
    <3>2. part[i] = right[i - (n - 1)] BY <2>2, <1>1, <1>5
    <3>3. right[i - (n - 1)] = list[i + 1] BY <3>1, <1>3
    <3>4. QED BY <2>2, <3>2, <3>3, <1>1
  <2>3. QED BY <2>1, <2>2
<1>7. \A i, j \in 1..(Len(list) - 1) : at[i] = at[j] => i = j
  BY <1>1
<1>8. n # Len(list) => part # <<>> /\ part[Len(part)] = list[Len(list)]
  <2>1. HAVE n # Len(list)
  <2>2. n < Len(list) /\ Len(list) - 1 >= 1 /\ Len(list) - 1 >= n BY <2>1, <1>1
  <2>3. Len(list) - 1 \in 1..(Len(list) - 1) /\ at[Len(list) - 1] = Len(list)
    <3>1. Len(list) - 1 \in 1..(Len(list) - 1) BY <2>2, <1>1
    <3>2. ~(Len(list) - 1 < n) /\ (Len(list) - 1) + 1 = Len(list) BY <2>2, <1>1
    <3>3. QED BY <3>1, <3>2
  <2>4. QED BY <2>2, <2>3, <1>5, <1>6
<1>9. Good(list) => Good(part)
  <2>1. HAVE Good(list)
  <2>2. ASSUME NEW i \in DOMAIN part
        PROVE  part[i].parts \subseteq {part[i].of} /\ (Stuck(part[i]) => i = Len(part))
    <3>1. i \in 1..(Len(list) - 1) /\ at[i] \in DOMAIN list /\ part[i] = list[at[i]] BY <1>5, <1>6
    <3>2. part[i].parts \subseteq {part[i].of} /\ (Stuck(part[i]) => at[i] = Len(list)) BY <2>1, <3>1 DEF Good
    <3>3. at[i] = Len(list) => i = Len(list) - 1 BY <3>1, <1>1
    <3>4. QED BY <3>2, <3>3, <1>5
  <2>3. QED BY <2>2 DEF Good
<1>10. QED
  <2> HIDE DEF at
  <2>1. /\ \A i \in DOMAIN part : at[i] \in DOMAIN list /\ part[i] = list[at[i]]
        /\ \A i, j \in DOMAIN part : at[i] = at[j] => i = j
    BY <1>5, <1>6, <1>7
  <2>5. part \in Seq(Message) BY <1>5
  <2>4. Sound(part, k) /\ (Ended(list) => Ended(part)) BY <2>5, <2>1, ChosenSound
  <2>2. \A i \in DOMAIN part : \E j \in DOMAIN list : part[i] = list[j] BY <1>5, <1>6
  <2>3. QED BY <2>4, <2>2, <1>8, <1>9 DEF part

\* The last message is replaced by a later form of itself.
Replaced(list, m) ==
    IF list = <<>> \/ Last(list).from # "assistant" THEN list ELSE [list EXCEPT ![Len(list)] = m]

LEMMA ReplaceSound ==
    ASSUME NEW list, NEW k \in Nat, Sound(list, k), NEW m,
           list # <<>> => m \in Message /\ m.key = list[Len(list)].key
    PROVE  /\ Sound(Replaced(list, m), k)
           /\ DOMAIN Replaced(list, m) = DOMAIN list
           /\ Len(Replaced(list, m)) = Len(list)
           /\ \A i \in DOMAIN list : Replaced(list, m)[i].key = list[i].key
           /\ \A i \in DOMAIN list : i # Len(list) => Replaced(list, m)[i] = list[i]
           /\ list # <<>> /\ list[Len(list)].from = "assistant" =>
                  Replaced(list, m) # <<>> /\ Replaced(list, m)[Len(list)] = m
<1>1. CASE list = <<>> \/ Last(list).from # "assistant"
  BY <1>1 DEF Replaced, Last
<1>2. CASE ~(list = <<>> \/ Last(list).from # "assistant")
  <2> DEFINE new == [list EXCEPT ![Len(list)] = m]
  <2>1. list \in Seq(Message) /\ DOMAIN list = 1..Len(list) /\ Len(list) \in 1..Len(list)
    BY <1>2 DEF Sound
  <2>2. m \in Message /\ m.key = list[Len(list)].key BY <1>2
  <2>3. /\ new \in Seq(Message) /\ Len(new) = Len(list) /\ DOMAIN new = 1..Len(list)
        /\ \A i \in 1..Len(list) : new[i] = IF i = Len(list) THEN m ELSE list[i]
    BY <2>1, <2>2, ExceptSeq
  <2>4. Replaced(list, m) = new BY <1>2 DEF Replaced
  <2> HIDE DEF new
  <2>5. \A i \in 1..Len(list) : new[i].key = list[i].key BY <2>2, <2>3
  <2>6. Sound(new, k) BY <2>1, <2>3, <2>5 DEF Sound
  <2>7. new # <<>>
    <3>1. Len(list) # 0 BY <2>1
    <3>2. Len(new) # 0 BY <3>1, <2>3
    <3>3. QED BY <3>2
  <2>8. QED BY <2>1, <2>3, <2>4, <2>5, <2>6, <2>7
<1>3. QED BY <1>1, <1>2

\* Loading repairs the last waiting message, and there is no other.
LEMMA SanitizeSound ==
    ASSUME NEW list, NEW k \in Nat, Sound(list, k)
    PROVE  Sound(Sanitize(list), k) /\ (Good(list) => Ended(Sanitize(list)))
<1> DEFINE new == Sanitize(list)
<1>1. list \in Seq(Message) /\ DOMAIN list = 1..Len(list) /\ Len(list) \in Nat BY DEF Sound
<1>2. \A i \in 1..Len(list) : list[i] \in Message BY <1>1
<1>3. DOMAIN new = 1..Len(list) BY <1>1 DEF Sanitize
<1>4. ASSUME NEW i \in 1..Len(list)
      PROVE  /\ new[i] \in Message
             /\ new[i].key = list[i].key /\ new[i].of = list[i].of /\ new[i].parts = list[i].parts
             /\ Stuck(new[i]) => Stuck(list[i])
             /\ Stuck(list[i]) /\ (\A j \in 1..Len(list) : Stuck(list[j]) => j <= i) => ~Stuck(new[i])
  <2>1. list[i] \in Message BY <1>2
  <2>2. CASE Stuck(list[i]) /\ \A j \in DOMAIN list : Stuck(list[j]) => j <= i
    <3>1. new[i] = [list[i] EXCEPT !.status = IF list[i].parts = {} THEN "error" ELSE "complete"]
      BY <2>2, <1>1 DEF Sanitize
    <3>2. QED BY <3>1, <2>1, <2>2 DEF Message, Statuses, Stuck
  <2>3. CASE ~(Stuck(list[i]) /\ \A j \in DOMAIN list : Stuck(list[j]) => j <= i)
    <3>1. new[i] = list[i] BY <2>3, <1>1 DEF Sanitize
    <3>2. QED BY <3>1, <2>1, <2>3, <1>1
  <2>4. QED BY <2>2, <2>3
<1>5. new \in Seq(Message)
  <2>1. new = [i \in 1..Len(list) |-> new[i]] BY <1>1 DEF Sanitize
  <2> HIDE DEF new
  <2>2. new \in [1..Len(list) -> Message] BY <2>1, <1>4
  <2>3. QED BY <2>2, <1>1
<1> HIDE DEF new
<1>6. Sound(new, k) BY <1>1, <1>3, <1>4, <1>5 DEF Sound
<1>7. ASSUME Good(list) PROVE Ended(new)
  <2>1. ASSUME NEW i \in 1..Len(list)
        PROVE  new[i].parts \subseteq {new[i].of} /\ ~Stuck(new[i])
    <3>1. list[i].parts \subseteq {list[i].of} /\ (Stuck(list[i]) => i = Len(list))
      BY <1>1, <1>7 DEF Good
    <3>2. Stuck(list[i]) => \A j \in 1..Len(list) : Stuck(list[j]) => j <= i
      BY <3>1
    <3>3. QED BY <3>1, <3>2, <1>4
  <2>2. QED BY <2>1, <1>3 DEF Ended
<1>8. QED BY <1>6, <1>7 DEF new

-----------------------------------------------------------------------------
(* Messages and their updates.                                             *)

LEMMA NewMessages ==
    ASSUME NEW k \in 1..MaxKeys, NEW r \in Requests
    PROVE  User(k) \in Message /\ Loading(k, r) \in Message
  BY DEF User, Loading, Message, Statuses

LEMMA UpdateTypes ==
    ASSUME NEW m \in Message, NEW r \in Requests, NEW m2 \in
               {Grown(m, r), Completed(m), Failed(m, r), Answered(m, r), Stopped(m)}
    PROVE  m2 \in Message /\ m2.key = m.key /\ m2.of = m.of /\ m2.from = m.from
<1>1. m.parts \cup {r} \in SUBSET Requests /\ {r} \in SUBSET Requests BY DEF Message
<1>2. Grown(m, r) \in Message /\ Grown(m, r).key = m.key /\ Grown(m, r).of = m.of /\ Grown(m, r).from = m.from
  BY <1>1 DEF Grown, Message, Statuses
<1>3. /\ Completed(m) \in Message /\ Completed(m).key = m.key
      /\ Completed(m).of = m.of /\ Completed(m).from = m.from
  BY DEF Completed, Message, Statuses
<1>4. /\ Failed(m, r) \in Message /\ Failed(m, r).key = m.key
      /\ Failed(m, r).of = m.of /\ Failed(m, r).from = m.from
  BY <1>1 DEF Failed, Message, Statuses
<1>5. /\ Answered(m, r) \in Message /\ Answered(m, r).key = m.key
      /\ Answered(m, r).of = m.of /\ Answered(m, r).from = m.from
  BY <1>1 DEF Answered, Message, Statuses
<1>6. Stopped(m) \in Message /\ Stopped(m).key = m.key /\ Stopped(m).of = m.of /\ Stopped(m).from = m.from
  BY DEF Stopped, Message, Statuses, Stuck
<1>7. QED BY <1>2, <1>3, <1>4, <1>5, <1>6

-----------------------------------------------------------------------------
(* Types and keys.                                                         *)

Lists == Sound(messages, keys) /\ Sound(shown, keys)

\* TypeOK but for the lists.
Scalars ==
    /\ generating \in BOOLEAN /\ complete \in BOOLEAN
    /\ editing \in 0..MaxKeys /\ keys \in 0..MaxKeys
    /\ source \in Requests \cup {NoRequest}
    /\ request \in [Requests -> {"unused", "stream", "plain", "over"}]
    /\ strays \subseteq {"overlap", "stale", "no choice", "no end"}

LEMMA TypesSplit == TypeOK /\ Lists <=> Scalars /\ Lists
  BY DEF TypeOK, Scalars, Lists, Sound

LEMMA KeysAreNumbers == Scalars => keys \in Nat
<1>1. MaxKeys \in Nat BY PlaygroundAssumption
<1>2. Scalars => keys \in 0..MaxKeys BY DEF Scalars
<1>3. QED BY <1>1, <1>2

LEMMA UpdateLastIsReplaced ==
    ASSUME NEW list, NEW r
    PROVE  /\ UpdateLast(list, Grown(Last(list), r)) = Replaced(list, Grown(list[Len(list)], r))
           /\ UpdateLast(list, Failed(Last(list), r)) = Replaced(list, Failed(list[Len(list)], r))
           /\ UpdateLast(list, Answered(Last(list), r)) = Replaced(list, Answered(list[Len(list)], r))
           /\ UpdateLast(list, Completed(Last(list))) = Replaced(list, Completed(list[Len(list)]))
           /\ UpdateLast(list, Stopped(Last(list))) = Replaced(list, Stopped(list[Len(list)]))
  BY DEF UpdateLast, Replaced, Last

LEMMA UpdateSound ==
    ASSUME NEW list, NEW k \in Nat, Sound(list, k), NEW r \in Requests,
           NEW new \in {Grown(list[Len(list)], r), Completed(list[Len(list)]), Failed(list[Len(list)], r),
                        Answered(list[Len(list)], r), Stopped(list[Len(list)])}
    PROVE  Sound(Replaced(list, new), k)
<1>1. list # <<>> => list[Len(list)] \in Message BY DEF Sound
<1>2. list # <<>> => new \in Message /\ new.key = list[Len(list)].key BY <1>1, UpdateTypes
<1>3. QED BY <1>2, ReplaceSound

LEMMA SendTypes ==
    ASSUME Scalars, NEW r \in Requests, NEW k \in Nat, NEW list, Sound(list, k), SendChat(r, list)
    PROVE  /\ Sound(messages', k)
           /\ complete' \in BOOLEAN /\ source' \in Requests \cup {NoRequest}
           /\ request' \in [Requests -> {"unused", "stream", "plain", "over"}]
           /\ strays' \subseteq {"overlap", "stale", "no choice", "no end"}
<1>1. strays' \subseteq {"overlap", "stale", "no choice", "no end"}
  BY DEF SendChat, Overlap, Stale, Scalars
<1>2. messages' = list \/ messages' = Replaced(list, Failed(list[Len(list)], r))
  BY UpdateLastIsReplaced DEF SendChat
<1>3. Sound(messages', k) BY <1>2, UpdateSound
<1>4. /\ complete' \in BOOLEAN /\ source' \in Requests \cup {NoRequest}
      /\ request' \in [Requests -> {"unused", "stream", "plain", "over"}]
  BY DEF SendChat, Scalars, connection
<1>5. QED BY <1>1, <1>3, <1>4

TypesInv == Scalars /\ Lists

LEMMA InitTypes == Init => TypesInv
<1>1. SUFFICES ASSUME Init PROVE TypesInv OBVIOUS
<1>2. Sound(<<>>, 0)
  <2>1. <<>> \in Seq(Message) /\ DOMAIN <<>> = {} OBVIOUS
  <2>2. QED BY <2>1 DEF Sound
<1>3. 0 \in 0..MaxKeys BY PlaygroundAssumption
<1>4. QED BY <1>1, <1>2, <1>3 DEF Init, TypesInv, Scalars, Lists

LEMMA ClickTypes ==
    ASSUME TypesInv, NEW r \in Requests, Click(r)
    PROVE  TypesInv'
<1>1. keys \in Nat /\ MaxKeys \in Nat /\ keys <= MaxKeys
  <2>1. keys \in 0..MaxKeys BY DEF TypesInv, Scalars
  <2>2. QED BY <2>1, PlaygroundAssumption
<1>2. Sound(shown, keys) BY DEF TypesInv, Lists
<1>3. DOMAIN shown = 1..Len(shown) /\ Len(shown) \in Nat BY <1>2 DEF Sound
<1>4. ASSUME NEW base, Sound(base, keys), keys + 1 <= MaxKeys
      PROVE  Sound(Append(base, Loading(keys + 1, r)), keys + 1)
  <2>1. keys + 1 \in 1..MaxKeys BY <1>1, <1>4
  <2>2. Loading(keys + 1, r) \in Message /\ Loading(keys + 1, r).key = keys + 1
    BY <2>1, NewMessages DEF Loading
  <2>3. QED BY <2>2, <1>1, <1>4, AddSound
<1>5. ASSUME NEW list, SendChat(r, list), NEW k \in 0..MaxKeys, Sound(list, k), keys' = k,
             shown' = shown, generating' = generating, editing' \in {editing, 0}, keys <= k
      PROVE  TypesInv'
  <2>1. k \in Nat BY <1>1
  <2>2. /\ Sound(messages', k)
        /\ complete' \in BOOLEAN /\ source' \in Requests \cup {NoRequest}
        /\ request' \in [Requests -> {"unused", "stream", "plain", "over"}]
        /\ strays' \subseteq {"overlap", "stale", "no choice", "no end"}
    BY <1>5, <2>1, SendTypes DEF TypesInv
  <2>3. Sound(shown, k)
    <3>1. \A i \in DOMAIN shown : shown[i].key \in Int /\ shown[i].key <= keys
      <4>1. \A i \in DOMAIN shown : shown[i] \in Message BY <1>2, <1>3 DEF Sound
      <4>2. QED BY <4>1, <1>2, KeyIsNumber DEF Sound
    <3>2. \A i \in DOMAIN shown : shown[i].key <= k BY <3>1, <1>1, <2>1, <1>5
    <3>3. QED BY <3>2, <1>2 DEF Sound
  <2>4. editing' \in 0..MaxKeys
    <3>1. editing \in 0..MaxKeys BY DEF TypesInv, Scalars
    <3>2. 0 \in 0..MaxKeys BY <1>1
    <3>3. QED BY <3>1, <3>2, <1>5
  <2>5. generating' \in BOOLEAN BY <1>5 DEF TypesInv, Scalars
  <2>6. Lists' BY <2>2, <2>3, <1>5 DEF Lists, Sound
  <2>7. keys' \in 0..MaxKeys BY <1>5
  <2>8. QED BY <2>2, <2>4, <2>5, <2>6, <2>7 DEF TypesInv, Scalars
<1>6. CASE SendMessage(r)
  <2>1. keys + 2 <= MaxKeys /\ keys' = keys + 2
        /\ SendChat(r, Append(Append(shown, User(keys + 1)), Loading(keys + 2, r)))
    BY <1>6 DEF SendMessage
  <2>2. /\ keys + 1 \in 1..MaxKeys /\ keys + 2 \in 1..MaxKeys /\ keys + 2 \in 0..MaxKeys
        /\ keys + 1 \in Nat /\ (keys + 1) + 1 = keys + 2 /\ keys <= keys + 2
    BY <1>1, <2>1
  <2>3. /\ User(keys + 1) \in Message /\ User(keys + 1).key = keys + 1
        /\ Loading(keys + 2, r) \in Message /\ Loading(keys + 2, r).key = keys + 2
    BY <2>2, NewMessages DEF User, Loading
  <2>4. Sound(Append(shown, User(keys + 1)), keys + 1) BY <1>1, <1>2, <2>3, AddSound
  <2>5. Sound(Append(Append(shown, User(keys + 1)), Loading(keys + 2, r)), keys + 2)
    BY <2>2, <2>3, <2>4, AddSound
  <2>6. shown' = shown /\ generating' = generating /\ editing' = editing BY <1>6 DEF SendMessage
  <2>7. QED BY <2>1, <2>2, <2>5, <2>6, <1>5
<1>7. CASE Regenerate(r)
  <2>1. PICK i \in DOMAIN shown :
            /\ keys < MaxKeys /\ keys' = keys + 1
            /\ SendChat(r, Append(SubSeq(shown, 1, i - 1), Loading(keys + 1, r)))
            /\ shown' = shown /\ generating' = generating /\ editing' = editing
    BY <1>7 DEF Regenerate
  <2>2. i - 1 \in 0..Len(shown) BY <1>3
  <2>3. keys + 1 <= MaxKeys /\ keys + 1 \in 0..MaxKeys /\ keys <= keys + 1 BY <2>1, <1>1
  <2>4. Sound(Append(SubSeq(shown, 1, i - 1), Loading(keys + 1, r)), keys + 1)
    BY <2>2, <2>3, <1>1, <1>2, <1>4, PrefixSound
  <2>5. QED BY <2>1, <2>3, <2>4, <1>5
<1>8. CASE SaveAndSubmit(r)
  <2>1. PICK i \in DOMAIN shown :
            /\ keys < MaxKeys /\ keys' = keys + 1
            /\ SendChat(r, Append(SubSeq(shown, 1, i), Loading(keys + 1, r)))
            /\ shown' = shown /\ generating' = generating /\ editing' = 0
    BY <1>8 DEF SaveAndSubmit
  <2>2. i \in 0..Len(shown) BY <1>3
  <2>3. keys + 1 <= MaxKeys /\ keys + 1 \in 0..MaxKeys /\ keys <= keys + 1 BY <2>1, <1>1
  <2>4. Sound(Append(SubSeq(shown, 1, i), Loading(keys + 1, r)), keys + 1)
    BY <2>2, <2>3, <1>1, <1>2, <1>4, PrefixSound
  <2>5. QED BY <2>1, <2>3, <2>4, <1>5
<1>9. QED BY <1>6, <1>7, <1>8 DEF Click, Submit, Suggest

LEMMA EventTypes ==
    ASSUME TypesInv, NEW r \in Requests, Event(r)
    PROVE  TypesInv'
<1>1. keys \in Nat BY KeysAreNumbers DEF TypesInv
<1>2. Sound(messages, keys) /\ Sound(shown, keys) BY DEF TypesInv, Lists
<1>3. /\ shown' = shown /\ generating' = generating /\ editing' = editing /\ keys' = keys
      /\ request' = [request EXCEPT ![r] = "over"] \/ request' = request
      /\ source' \in {source, NoRequest}
      /\ complete' \in {complete, TRUE}
      /\ strays' \subseteq strays \cup {"no choice", "no end"}
  BY DEF Event, Chunk, Done, StreamFails, EndsWithoutDone, PlainAnswer, PlainFails, NoChoice,
         Over, page, connection
<1>4. Sound(messages', keys)
  <2>1. messages' = messages \/ \E new \in {Grown(messages[Len(messages)], r),
            Completed(messages[Len(messages)]), Failed(messages[Len(messages)], r),
            Answered(messages[Len(messages)], r)} : messages' = Replaced(messages, new)
    BY UpdateLastIsReplaced
       DEF Event, Chunk, Done, StreamFails, EndsWithoutDone, PlainAnswer, PlainFails, NoChoice, page
  <2>2. QED BY <2>1, <1>1, <1>2, UpdateSound
<1>5. request' \in [Requests -> {"unused", "stream", "plain", "over"}] BY <1>3 DEF TypesInv, Scalars
<1>6. Lists' BY <1>2, <1>3, <1>4 DEF Lists, Sound
<1>7. complete' \in BOOLEAN BY <1>3 DEF TypesInv, Scalars
<1>8. /\ generating' \in BOOLEAN /\ editing' \in 0..MaxKeys /\ keys' \in 0..MaxKeys
      /\ source' \in Requests \cup {NoRequest}
      /\ strays' \subseteq {"overlap", "stale", "no choice", "no end"}
  BY <1>3 DEF TypesInv, Scalars
<1>9. QED BY <1>5, <1>6, <1>7, <1>8 DEF TypesInv, Scalars

LEMMA PageTypes ==
    ASSUME TypesInv,
           Render \/ OpenEditor \/ CancelEdit \/ SaveEdit \/ DeleteMessage \/ Stop \/ Reload
    PROVE  TypesInv'
<1>1. keys \in Nat BY KeysAreNumbers DEF TypesInv
<1>2. Sound(messages, keys) /\ Sound(shown, keys) BY DEF TypesInv, Lists
<1>3. 0 \in 0..MaxKeys BY PlaygroundAssumption
<1>4. ASSUME NEW i \in DOMAIN shown PROVE shown[i].key \in 0..MaxKeys
  <2>1. shown[i] \in Message BY <1>2 DEF Sound
  <2>2. shown[i].key \in 1..MaxKeys BY <2>1 DEF Message
  <2>3. QED BY <2>2, PlaygroundAssumption
<1>5. ASSUME Lists', UNCHANGED <<generating, keys, connection, request>>,
             editing' \in 0..MaxKeys, strays' \subseteq {"overlap", "stale", "no choice", "no end"}
      PROVE  TypesInv'
  BY <1>5 DEF TypesInv, Scalars, connection
<1>6. CASE Render
  <2>1. Lists' BY <1>2, <1>6 DEF Render, Lists, Sound
  <2>2. generating' \in BOOLEAN BY <1>6 DEF Render
  <2>3. UNCHANGED <<editing, keys, source, complete, request, strays>> BY <1>6 DEF Render, connection
  <2>4. QED BY <2>1, <2>2, <2>3 DEF TypesInv, Scalars
<1>7. CASE OpenEditor
  <2>1. Lists' BY <1>2, <1>7 DEF OpenEditor, Lists, Sound
  <2>2. editing' \in 0..MaxKeys BY <1>4, <1>7 DEF OpenEditor
  <2>3. QED BY <2>1, <2>2, <1>5, <1>7 DEF OpenEditor, TypesInv, Scalars
<1>8. CASE CancelEdit
  <2>1. Lists' BY <1>2, <1>8 DEF CancelEdit, Lists, Sound
  <2>2. QED BY <2>1, <1>3, <1>5, <1>8 DEF CancelEdit, TypesInv, Scalars
<1>9. CASE SaveEdit
  <2>1. Lists' BY <1>2, <1>9 DEF SaveEdit, Lists, Sound
  <2>2. QED BY <2>1, <1>3, <1>5, <1>9 DEF SaveEdit, TypesInv, Scalars, Stale
<1>10. CASE DeleteMessage
  <2>1. PICK i \in DOMAIN shown :
            /\ messages' = RemoveAt(shown, i) /\ strays' = strays \cup Stale
            /\ UNCHANGED <<shown, generating, editing, keys, connection, request>>
    BY <1>10 DEF DeleteMessage
  <2>2. Sound(messages', keys) BY <2>1, <1>1, <1>2, RemoveSound
  <2>3. Lists' BY <2>1, <2>2, <1>2 DEF Lists, Sound
  <2>4. QED BY <2>1, <2>3, <1>5 DEF TypesInv, Scalars, Stale
<1>11. CASE Stop
  <2>1. messages' = Replaced(messages, Stopped(messages[Len(messages)]))
    BY <1>11, UpdateLastIsReplaced DEF Stop
  <2>2. Sound(messages', keys)
    <3>1. messages # <<>> => messages[Len(messages)] \in Message BY <1>2 DEF Sound
    <3>2. ASSUME NEW m \in Message PROVE Stopped(m) \in Message /\ Stopped(m).key = m.key
      BY DEF Stopped, Message, Statuses, Stuck
    <3>3. QED BY <2>1, <3>1, <3>2, <1>1, <1>2, ReplaceSound
  <2>3. UNCHANGED <<shown, generating, editing, keys, complete, strays>> BY <1>11 DEF Stop
  <2>4. Lists' BY <2>2, <2>3, <1>2 DEF Lists, Sound
  <2>5. /\ source' = NoRequest
        /\ request' = request \/ request' = [request EXCEPT ![source] = "over"]
    BY <1>11 DEF Stop
  <2>6. request' \in [Requests -> {"unused", "stream", "plain", "over"}] BY <2>5 DEF TypesInv, Scalars
  <2>7. QED BY <2>3, <2>4, <2>5, <2>6 DEF TypesInv, Scalars
<1>12. CASE Reload
  <2>1. PICK saved \in {messages, shown} :
            /\ messages' = Sanitize(saved) /\ shown' = Sanitize(saved)
            /\ generating' = FALSE /\ editing' = 0 /\ keys' = keys
            /\ source' = NoRequest /\ complete' = FALSE
            /\ request' = [r \in Requests |-> IF Live(r) THEN "over" ELSE request[r]]
            /\ strays' = strays
    BY <1>12 DEF Reload
  <2>2. Sound(saved, keys) BY <1>2
  <2>3. Sound(messages', keys) /\ Sound(shown', keys) BY <2>1, <2>2, <1>1, SanitizeSound
  <2>4. Lists' BY <2>1, <2>3 DEF Lists, Sound
  <2>5. request' \in [Requests -> {"unused", "stream", "plain", "over"}] BY <2>1 DEF TypesInv, Scalars
  <2>6. QED BY <2>1, <2>4, <2>5, <1>3 DEF TypesInv, Scalars
<1>13. QED BY <1>6, <1>7, <1>8, <1>9, <1>10, <1>11, <1>12

\* Every reachable state has the declared types, and its messages different keys.
THEOREM TypeCorrect == Spec => []TypeOK
<1>1. TypesInv /\ [Next]_vars => TypesInv'
  <2>1. SUFFICES ASSUME TypesInv, [Next]_vars PROVE TypesInv' OBVIOUS
  <2>2. CASE UNCHANGED vars
    BY <2>1, <2>2 DEF TypesInv, Scalars, Lists, Sound, vars, page, connection
  <2>3. CASE Next
    BY <2>1, <2>3, ClickTypes, EventTypes, PageTypes DEF Next
  <2>4. QED BY <2>1, <2>2, <2>3
<1>2. TypesInv => TypeOK BY DEF TypesInv, TypeOK, Scalars, Lists, Sound
<1>3. QED BY <1>1, <1>2, InitTypes, PTL DEF Spec

-----------------------------------------------------------------------------
(* While nothing has gone astray.                                          *)

\* m waits for r, by the connection the page knows or for an answer in one piece.
Waits(m, r) ==
    /\ m.from = "assistant" /\ m.of = r /\ Stuck(m) /\ m.parts \subseteq {r}
    /\ request[r] = "stream" => source = r /\ complete = FALSE
    /\ request[r] = "plain" => m.status = "loading" /\ m.parts = {} /\ generating = FALSE

\* The last message waits for whatever request is under way ...
Awaited == \A r \in Requests : Live(r) => messages # <<>> /\ Waits(messages[Len(messages)], r)

\* ... and a message that waits has such a request.
Answerable == \A i \in DOMAIN messages : Stuck(messages[i]) => Live(messages[i].of)

Connected == source # NoRequest => request[source] = "stream"

\* What the page shows is the current list only if it also knows whether a stream
\* is under way.
Rendered ==
    /\ generating = TRUE => shown # <<>> /\ Stuck(shown[Len(shown)])
    /\ source # NoRequest /\ generating = FALSE =>
           \A i \in DOMAIN shown : shown[i].key # messages[Len(messages)].key

Calm == Good(messages) /\ Good(shown) /\ Awaited /\ Answerable /\ Connected /\ Rendered

Inv == TypesInv /\ (strays = {} => Calm)

\* A plain request under way excludes a stream.
LEMMA PlainAlone ==
    ASSUME TypesInv, Calm, NEW r \in Requests, request[r] = "plain"
    PROVE  source = NoRequest /\ generating = FALSE
<1>1. r # NoRequest BY PlaygroundAssumption
<1>2. messages # <<>> /\ Waits(messages[Len(messages)], r) BY <1>1 DEF Calm, Awaited, Live
<1>3. ASSUME source # NoRequest PROVE FALSE
  <2>1. source \in Requests /\ request[source] = "stream" BY <1>3 DEF Calm, Connected, TypesInv, Scalars
  <2>2. Waits(messages[Len(messages)], source) BY <2>1, <1>3 DEF Calm, Awaited, Live
  <2>3. source = r BY <1>2, <2>2 DEF Waits
  <2>4. QED BY <2>1, <2>3
<1>4. QED BY <1>2, <1>3 DEF Waits

\* A click that nothing is said against finds nothing under way.
LEMMA Quiet ==
    ASSUME TypesInv, Calm, Stale = {}, Overlap = {}
    PROVE  /\ generating = FALSE /\ Ended(shown) /\ source = NoRequest
           /\ \A r \in Requests : ~Live(r)
<1>1. shown = messages BY DEF Stale
<1>2. source = NoRequest /\ \A r \in Requests : request[r] # "plain" BY DEF Overlap
<1>3. \A r \in Requests : ~Live(r)
  <2>1. SUFFICES ASSUME NEW r \in Requests, Live(r) PROVE FALSE OBVIOUS
  <2>2. request[r] = "stream" /\ r # NoRequest BY <2>1, <1>2 DEF Live
  <2>3. Waits(messages[Len(messages)], r) BY <2>1 DEF Calm, Awaited
  <2>4. QED BY <2>2, <2>3, <1>2 DEF Waits
<1>4. \A i \in DOMAIN messages : ~Stuck(messages[i])
  <2>1. SUFFICES ASSUME NEW i \in DOMAIN messages, Stuck(messages[i]) PROVE FALSE OBVIOUS
  <2>2. Live(messages[i].of) BY <2>1 DEF Calm, Answerable
  <2>3. messages[i] \in Message BY DEF TypesInv, Lists, Sound
  <2>4. messages[i].of \in Requests \cup {NoRequest} BY <2>3 DEF Message
  <2>5. QED BY <2>2, <2>4, <1>3 DEF Live
<1>5. Ended(shown) BY <1>1, <1>4 DEF Ended, Calm, Good
<1>6. generating = FALSE
  <2>1. SUFFICES ASSUME generating = TRUE PROVE FALSE BY DEF TypesInv, Scalars
  <2>2. shown # <<>> /\ Stuck(shown[Len(shown)]) BY <2>1 DEF Calm, Rendered
  <2>3. Len(shown) \in DOMAIN shown
    <3>1. shown \in Seq(Message) BY DEF TypesInv, Lists, Sound
    <3>2. QED BY <2>2, <3>1
  <2>4. QED BY <2>2, <2>3, <1>1, <1>4
<1>7. QED BY <1>2, <1>3, <1>5, <1>6

\* The request that was under way ends, with a message that no longer waits.
LEMMA EndCalm ==
    ASSUME TypesInv, Calm, NEW r \in Requests, Live(r),
           NEW new, new \in Message, new.key = messages[Len(messages)].key,
           new.of = messages[Len(messages)].of, ~Stuck(new), new.parts \subseteq {r},
           messages' = Replaced(messages, new), request' = [request EXCEPT ![r] = "over"],
           source' = NoRequest, shown' = shown, generating' = generating
    PROVE  Calm'
<1>1. messages # <<>> /\ Waits(messages[Len(messages)], r) BY DEF Calm, Awaited
<1>2. Sound(messages, keys) /\ keys \in Nat BY KeysAreNumbers DEF TypesInv, Lists
<1>3. /\ DOMAIN messages' = DOMAIN messages /\ Len(messages') = Len(messages)
      /\ \A i \in DOMAIN messages : i # Len(messages) => messages'[i] = messages[i]
      /\ messages'[Len(messages)] = new
  BY <1>1, <1>2, ReplaceSound DEF Waits
<1>4. \A q \in Requests : Live(q) => q = r
  <2>1. SUFFICES ASSUME NEW q \in Requests, Live(q) PROVE q = r OBVIOUS
  <2>2. Waits(messages[Len(messages)], q) BY <2>1 DEF Calm, Awaited
  <2>3. QED BY <1>1, <2>2 DEF Waits
<1>5. \A q \in Requests : ~Live(q)'
  <2>1. SUFFICES ASSUME NEW q \in Requests, Live(q)' PROVE FALSE OBVIOUS
  <2>2. request \in [Requests -> {"unused", "stream", "plain", "over"}] BY DEF TypesInv, Scalars
  <2>3. CASE q = r BY <2>1, <2>2, <2>3 DEF Live
  <2>4. CASE q # r
    <3>1. Live(q) BY <2>1, <2>2, <2>4 DEF Live
    <3>2. QED BY <3>1, <2>4, <1>4
  <2>5. QED BY <2>3, <2>4
<1>6. \A i \in DOMAIN messages' : ~Stuck(messages'[i]) /\ messages'[i].parts \subseteq {messages'[i].of}
  <2>1. SUFFICES ASSUME NEW i \in DOMAIN messages'
                 PROVE  ~Stuck(messages'[i]) /\ messages'[i].parts \subseteq {messages'[i].of}
    OBVIOUS
  <2>2. CASE i = Len(messages)
    <3>1. new.of = r BY <1>1 DEF Waits
    <3>2. QED BY <2>2, <3>1, <1>3
  <2>3. CASE i # Len(messages)
    BY <2>3, <1>3 DEF Calm, Good
  <2>4. QED BY <2>2, <2>3
<1>7. Good(messages)' BY <1>6 DEF Good
<1>8. Answerable' BY <1>6 DEF Answerable
<1>9. Awaited' BY <1>5 DEF Awaited
<1>10. Good(shown)' BY DEF Calm, Good
<1>11. Connected' BY DEF Connected
<1>12. Rendered' BY DEF Calm, Rendered
<1>13. QED BY <1>7, <1>8, <1>9, <1>10, <1>11, <1>12 DEF Calm

\* A request is sent for a new last message, when nothing is under way.
LEMMA SendCalm ==
    ASSUME TypesInv, Calm, NEW r \in Requests, NEW k \in Nat, NEW base, Sound(base, k), Ended(base),
           k + 1 \in 1..MaxKeys, \A i \in DOMAIN shown : shown[i].key <= k,
           SendChat(r, Append(base, Loading(k + 1, r))), strays' = {},
           shown' = shown, generating' = generating
    PROVE  Calm'
<1> DEFINE list == Append(base, Loading(k + 1, r))
<1> DEFINE loading == Loading(k + 1, r)
<1>1. /\ loading \in Message /\ loading.key = k + 1 /\ loading.from = "assistant" /\ loading.of = r
      /\ loading.parts = {} /\ loading.status = "loading" /\ Stuck(loading)
  BY NewMessages DEF Loading, Stuck
<1>2. /\ Sound(list, k + 1) /\ list # <<>> /\ Len(list) = Len(base) + 1 /\ list[Len(base) + 1] = loading
      /\ \A i \in DOMAIN base : list[i] = base[i]
      /\ DOMAIN base = 1..Len(base) /\ Len(base) \in Nat
  BY <1>1, AddSound
<1> HIDE DEF list, loading
<1>3. DOMAIN list = 1..Len(list) BY <1>2 DEF Sound
<1>4. \A i \in DOMAIN list : i # Len(list) => ~Stuck(list[i]) /\ list[i].parts \subseteq {list[i].of}
  <2>1. SUFFICES ASSUME NEW i \in DOMAIN list, i # Len(list)
                 PROVE  ~Stuck(list[i]) /\ list[i].parts \subseteq {list[i].of}
    OBVIOUS
  <2>2. i \in 1..Len(base) BY <2>1, <1>2, <1>3
  <2>3. QED BY <2>2, <1>2 DEF Ended
<1>5. Stale = {} /\ Overlap = {}
  <2>1. strays' = strays \cup Overlap \cup Stale BY DEF SendChat
  <2>2. QED BY <2>1
<1>6. /\ generating = FALSE /\ source = NoRequest
      /\ \A q \in Requests : ~Live(q)
  BY <1>5, Quiet
<1>7. request \in [Requests -> {"unused", "stream", "plain", "over"}] BY DEF TypesInv, Scalars
<1>8. r # NoRequest BY PlaygroundAssumption
<1>9. Good(shown)' BY DEF Calm, Good
<1>10. CASE /\ messages' = list
            /\ \/ request' = [request EXCEPT ![r] = "stream"] /\ source' = r /\ complete' = FALSE
               \/ request' = [request EXCEPT ![r] = "plain"] /\ source' = source
  <2>1. messages' # <<>> /\ messages'[Len(messages')] = loading BY <1>2, <1>10
  <2>2. Len(list) = Len(base) + 1 /\ list[Len(list)] = loading BY <1>2
  <2>3. Good(messages)'
    <3>1. ASSUME NEW i \in DOMAIN list
          PROVE  list[i].parts \subseteq {list[i].of} /\ (Stuck(list[i]) => i = Len(list))
      BY <2>2, <1>1, <1>4
    <3>2. QED BY <3>1, <1>10 DEF Good
  <2>4. \A q \in Requests : Live(q)' <=> q = r
    <3>1. request'[r] \in {"stream", "plain"} /\ \A q \in Requests : q # r => request'[q] = request[q]
      BY <1>7, <1>10
    <3>2. QED BY <3>1, <1>6, <1>8 DEF Live
  <2>5. Waits(loading, r)'
    <3>1. generating' = FALSE BY <1>6
    <3>2. request'[r] = "stream" => source' = r /\ complete' = FALSE BY <1>7, <1>10
    <3>3. QED BY <3>1, <3>2, <1>1 DEF Waits, loading, Loading
  <2>6. Awaited'
    <3>1. SUFFICES ASSUME NEW q \in Requests, Live(q)'
                   PROVE  messages' # <<>> /\ Waits(messages[Len(messages)], q)'
      BY DEF Awaited
    <3>2. q = r BY <3>1, <2>4
    <3>3. QED BY <3>2, <2>1, <2>5 DEF Waits, loading, Loading
  <2>7. Answerable'
    <3>1. ASSUME NEW i \in DOMAIN messages', Stuck(messages'[i]) PROVE Live(messages[i].of)'
      <4>1. i = Len(list) BY <3>1, <1>4, <1>10
      <4>2. messages'[i].of = r BY <4>1, <2>2, <1>1, <1>10
      <4>3. QED BY <4>2, <2>4 DEF Live
    <3>2. QED BY <3>1 DEF Answerable
  <2>8. Connected' BY <1>6, <1>7, <1>10 DEF Connected
  <2>9. Rendered'
    <3>1. \A i \in DOMAIN shown : shown[i].key # k + 1
      <4>1. shown \in Seq(Message) BY DEF TypesInv, Lists, Sound
      <4>2. \A i \in DOMAIN shown : shown[i] \in Message BY <4>1
      <4>3. QED BY <4>2, KeyIsNumber
    <3>2. messages'[Len(messages')].key = k + 1 BY <2>1, <1>1
    <3>3. generating' = FALSE BY <1>6
    <3>4. QED BY <3>1, <3>2, <3>3 DEF Rendered
  <2>10. QED BY <1>9, <2>3, <2>6, <2>7, <2>8, <2>9 DEF Calm
<1>11. CASE /\ messages' = Replaced(list, Failed(loading, r))
            /\ request' = [request EXCEPT ![r] = "over"] /\ source' = NoRequest
  <2> DEFINE new == Failed(loading, r)
  <2>1. new \in Message /\ new.key = loading.key /\ new.of = r BY <1>1, UpdateTypes
  <2>2. ~Stuck(new) /\ new.parts \subseteq {new.of}
    BY <1>1 DEF Failed, Stuck, Message
  <2> HIDE DEF new
  <2>3. Len(list) = Len(base) + 1 /\ list[Len(list)] = loading BY <1>2
  <2>4. /\ DOMAIN messages' = DOMAIN list
        /\ \A i \in DOMAIN list : i # Len(list) => messages'[i] = list[i]
        /\ messages'[Len(list)] = new
    <3>1. k + 1 \in Nat OBVIOUS
    <3>2. messages' = Replaced(list, new) BY <1>11 DEF new
    <3>3. list[Len(list)].from = "assistant" /\ new.key = list[Len(list)].key BY <2>1, <2>3, <1>1
    <3>4. QED BY <3>1, <3>2, <3>3, <2>1, <1>2, ReplaceSound
  <2>5. \A i \in DOMAIN messages' : ~Stuck(messages'[i]) /\ messages'[i].parts \subseteq {messages'[i].of}
    <3>1. SUFFICES ASSUME NEW i \in DOMAIN list
                   PROVE  ~Stuck(messages'[i]) /\ messages'[i].parts \subseteq {messages'[i].of}
      BY <2>4
    <3>2. CASE i = Len(list) BY <3>2, <2>2, <2>4
    <3>3. CASE i # Len(list) BY <3>3, <2>4, <1>4
    <3>4. QED BY <3>2, <3>3
  <2>6. Good(messages)' BY <2>5 DEF Good
  <2>7. Answerable' BY <2>5 DEF Answerable
  <2>8. \A q \in Requests : ~Live(q)' BY <1>6, <1>7, <1>11 DEF Live
  <2>9. Awaited' BY <2>8 DEF Awaited
  <2>10. Connected' BY <1>11 DEF Connected
  <2>11. Rendered' BY <1>6, <1>11 DEF Rendered
  <2>12. QED BY <1>9, <2>6, <2>7, <2>9, <2>10, <2>11 DEF Calm
<1>12. \/ /\ messages' = list
          /\ \/ request' = [request EXCEPT ![r] = "stream"] /\ source' = r /\ complete' = FALSE
             \/ request' = [request EXCEPT ![r] = "plain"] /\ source' = source
       \/ /\ messages' = Replaced(list, Failed(loading, r))
          /\ request' = [request EXCEPT ![r] = "over"] /\ source' = NoRequest
  <2>1. SendChat(r, list) BY DEF list
  <2>2. list[Len(list)] = loading BY <1>2
  <2>3. QED BY <2>1, <2>2, UpdateLastIsReplaced DEF SendChat, connection
<1>13. QED BY <1>10, <1>11, <1>12

LEMMA ClickCalm ==
    ASSUME TypesInv, Calm, NEW r \in Requests, Click(r), strays' = {}
    PROVE  Calm'
<1>1. keys \in Nat /\ MaxKeys \in Nat
  BY KeysAreNumbers, PlaygroundAssumption DEF TypesInv
<1>2. Sound(shown, keys) BY DEF TypesInv, Lists
<1>3. DOMAIN shown = 1..Len(shown) /\ Len(shown) \in Nat BY <1>2 DEF Sound
<1>4. Ended(shown)
  <2>1. strays' = strays \cup Overlap \cup Stale
    BY DEF Click, Submit, Suggest, SendMessage, Regenerate, SaveAndSubmit, SendChat
  <2>2. Stale = {} /\ Overlap = {} BY <2>1
  <2>3. QED BY <2>2, Quiet
<1>5. \A i \in DOMAIN shown : shown[i].key <= keys BY <1>2 DEF Sound
<1>6. CASE SendMessage(r)
  <2>1. keys + 2 <= MaxKeys /\ shown' = shown /\ generating' = generating
        /\ SendChat(r, Append(Append(shown, User(keys + 1)), Loading(keys + 2, r)))
    BY <1>6 DEF SendMessage
  <2>2. keys + 1 \in 1..MaxKeys /\ keys + 1 \in Nat /\ (keys + 1) + 1 = keys + 2 /\ keys + 2 \in 1..MaxKeys
    BY <1>1, <2>1
  <2>3. User(keys + 1) \in Message /\ User(keys + 1).key = keys + 1
    BY <2>2, NewMessages DEF User
  <2> DEFINE base == Append(shown, User(keys + 1))
  <2>4. /\ Sound(base, keys + 1) /\ Len(base) = Len(shown) + 1 /\ base[Len(shown) + 1] = User(keys + 1)
        /\ \A i \in DOMAIN shown : base[i] = shown[i]
    BY <1>1, <1>2, <2>3, AddSound
  <2> HIDE DEF base
  <2>5. Ended(base)
    <3>1. DOMAIN base = 1..Len(base) BY <2>4 DEF Sound
    <3>2. ~Stuck(User(keys + 1)) /\ User(keys + 1).parts = {} BY DEF Stuck, User
    <3>3. ASSUME NEW i \in DOMAIN base PROVE base[i].parts \subseteq {base[i].of} /\ ~Stuck(base[i])
      <4>1. CASE i = Len(shown) + 1 BY <4>1, <3>2, <2>4
      <4>2. CASE i # Len(shown) + 1
        <5>1. i \in DOMAIN shown BY <4>2, <3>1, <2>4, <1>3
        <5>2. QED BY <5>1, <2>4, <1>4 DEF Ended
      <4>3. QED BY <4>1, <4>2
    <3>4. QED BY <3>3 DEF Ended
  <2>6. \A i \in DOMAIN shown : shown[i].key <= keys + 1
    <3>1. shown \in Seq(Message) BY <1>2 DEF Sound
    <3>2. \A i \in DOMAIN shown : shown[i] \in Message BY <3>1
    <3>3. QED BY <3>2, <1>1, <1>5, KeyIsNumber
  <2>7. SendChat(r, Append(base, Loading((keys + 1) + 1, r))) BY <2>1, <2>2 DEF base
  <2>8. QED BY <2>1, <2>2, <2>4, <2>5, <2>6, <2>7, SendCalm
<1>7. ASSUME NEW n \in 0..Len(shown), keys < MaxKeys, shown' = shown, generating' = generating,
             SendChat(r, Append(SubSeq(shown, 1, n), Loading(keys + 1, r)))
      PROVE  Calm'
  <2>1. Sound(SubSeq(shown, 1, n), keys) /\ Ended(SubSeq(shown, 1, n))
    BY <1>1, <1>2, <1>4, PrefixSound
  <2>2. keys + 1 \in 1..MaxKeys BY <1>1, <1>7
  <2>3. QED BY <1>1, <1>5, <1>7, <2>1, <2>2, SendCalm
<1>8. CASE Regenerate(r)
  <2>1. PICK i \in DOMAIN shown :
            /\ keys < MaxKeys /\ shown' = shown /\ generating' = generating
            /\ SendChat(r, Append(SubSeq(shown, 1, i - 1), Loading(keys + 1, r)))
    BY <1>8 DEF Regenerate
  <2>2. i - 1 \in 0..Len(shown) BY <1>3
  <2>3. QED BY <2>1, <2>2, <1>7
<1>9. CASE SaveAndSubmit(r)
  <2>1. PICK i \in DOMAIN shown :
            /\ keys < MaxKeys /\ shown' = shown /\ generating' = generating
            /\ SendChat(r, Append(SubSeq(shown, 1, i), Loading(keys + 1, r)))
    BY <1>9 DEF SaveAndSubmit
  <2>2. i \in 0..Len(shown) BY <1>3
  <2>3. QED BY <2>1, <2>2, <1>7
<1>10. QED BY <1>6, <1>8, <1>9 DEF Click, Submit, Suggest

LEMMA EventCalm ==
    ASSUME TypesInv, Calm, NEW r \in Requests, Event(r), strays' = {}
    PROVE  Calm'
<1> DEFINE last == messages[Len(messages)]
<1>1. request[r] \in {"stream", "plain"} /\ Live(r)
  <2>1. r # NoRequest BY PlaygroundAssumption
  <2>2. request[r] \in {"stream", "plain"}
    BY DEF Event, Chunk, Done, StreamFails, EndsWithoutDone, PlainAnswer, PlainFails, NoChoice
  <2>3. QED BY <2>1, <2>2 DEF Live
<1>2. messages # <<>> /\ Waits(last, r) BY <1>1 DEF Calm, Awaited
<1>3. Sound(messages, keys) /\ keys \in Nat BY KeysAreNumbers DEF TypesInv, Lists
<1>4. last \in Message
  <2>1. messages \in Seq(Message) BY <1>3 DEF Sound
  <2>2. Len(messages) \in DOMAIN messages BY <1>2, <2>1
  <2>3. QED BY <2>1, <2>2
<1> HIDE DEF last
<1>5. last.of = r /\ Stuck(last) /\ last.parts \subseteq {r} BY <1>2 DEF Waits
<1>6. /\ ~Stuck(Completed(last)) /\ Completed(last).parts \subseteq {r}
      /\ ~Stuck(Failed(last, r)) /\ Failed(last, r).parts \subseteq {r}
      /\ ~Stuck(Answered(last, r)) /\ Answered(last, r).parts \subseteq {r}
  BY <1>4, <1>5 DEF Completed, Failed, Answered, Stuck, Message, Statuses
<1>7. ASSUME NEW new \in {Completed(last), Failed(last, r), Answered(last, r)},
             messages' = Replaced(messages, new), request' = [request EXCEPT ![r] = "over"],
             source' = NoRequest, shown' = shown, generating' = generating
      PROVE  Calm'
  <2>1. new \in Message /\ new.key = last.key /\ new.of = last.of BY <1>4, UpdateTypes
  <2>2. ~Stuck(new) /\ new.parts \subseteq {r} BY <1>6
  <2>3. QED BY <1>1, <1>7, <2>1, <2>2, EndCalm DEF last
<1>8. CASE Chunk(r)
  <2> DEFINE new == Grown(last, r)
  <2>1. /\ messages' = Replaced(messages, new) /\ request' = request /\ source' = source
        /\ complete' = complete /\ shown' = shown /\ generating' = generating /\ request[r] = "stream"
    BY <1>8, UpdateLastIsReplaced DEF Chunk, connection, last
  <2>2. new \in Message /\ new.key = last.key /\ new.of = r /\ new.from = last.from
    BY <1>4, <1>5, UpdateTypes
  <2>3. Stuck(new) /\ new.parts \subseteq {r}
    BY <1>4, <1>5 DEF Grown, Stuck, Message, Statuses
  <2> HIDE DEF new
  <2>4. /\ DOMAIN messages' = DOMAIN messages /\ Len(messages') = Len(messages) /\ messages' # <<>>
        /\ \A i \in DOMAIN messages : i # Len(messages) => messages'[i] = messages[i]
        /\ messages'[Len(messages)] = new
    BY <1>2, <1>3, <2>1, <2>2, ReplaceSound DEF last, Waits
  <2>5. \A q \in Requests : Live(q)' <=> q = r
    <3>1. ASSUME NEW q \in Requests, Live(q) PROVE q = r
      <4>1. Waits(last, q) BY <3>1 DEF Calm, Awaited, last
      <4>2. QED BY <4>1, <1>5 DEF Waits
    <3>2. QED BY <3>1, <2>1, <1>1 DEF Live
  <2>6. Good(messages)'
    <3>1. ASSUME NEW i \in DOMAIN messages'
          PROVE  messages'[i].parts \subseteq {messages'[i].of} /\ (Stuck(messages'[i]) => i = Len(messages'))
      <4>1. CASE i = Len(messages) BY <4>1, <2>2, <2>3, <2>4
      <4>2. CASE i # Len(messages) BY <4>2, <2>4 DEF Calm, Good
      <4>3. QED BY <4>1, <4>2
    <3>2. QED BY <3>1 DEF Good
  <2>7. Awaited'
    <3>1. SUFFICES ASSUME NEW q \in Requests, Live(q)'
                   PROVE  messages' # <<>> /\ Waits(messages[Len(messages)], q)'
      BY DEF Awaited
    <3>2. q = r BY <3>1, <2>5
    <3>3. new.from = "assistant" /\ source = r /\ complete = FALSE BY <1>2, <2>1, <2>2 DEF Waits
    <3>4. QED BY <3>2, <3>3, <2>1, <2>2, <2>3, <2>4 DEF Waits
  <2>8. Answerable'
    <3>1. ASSUME NEW i \in DOMAIN messages', Stuck(messages'[i]) PROVE Live(messages[i].of)'
      <4>1. i = Len(messages) BY <3>1, <2>4, <2>6 DEF Good
      <4>2. messages'[i].of = r BY <4>1, <2>2, <2>4
      <4>3. QED BY <4>2, <2>5 DEF Live
    <3>2. QED BY <3>1 DEF Answerable
  <2>9. Connected' BY <2>1 DEF Calm, Connected
  <2>10. Rendered' BY <2>1, <2>2, <2>4 DEF Calm, Rendered, last
  <2>11. Good(shown)' BY <2>1 DEF Calm, Good
  <2>12. QED BY <2>6, <2>7, <2>8, <2>9, <2>10, <2>11 DEF Calm
<1>9. CASE Done(r)
  <2>1. /\ messages' = Replaced(messages, Completed(last)) /\ request' = [request EXCEPT ![r] = "over"]
        /\ source' = NoRequest /\ shown' = shown /\ generating' = generating
    BY <1>9, UpdateLastIsReplaced DEF Done, Over, last
  <2>2. QED BY <2>1, <1>7
<1>10. CASE StreamFails(r)
  <2>1. complete = FALSE BY <1>2, <1>10 DEF StreamFails, Waits
  <2>2. /\ messages' = Replaced(messages, Failed(last, r)) /\ request' = [request EXCEPT ![r] = "over"]
        /\ source' = NoRequest /\ shown' = shown /\ generating' = generating
    BY <2>1, <1>10, UpdateLastIsReplaced DEF StreamFails, Over, last
  <2>3. QED BY <2>2, <1>7
<1>11. CASE PlainAnswer(r)
  <2>1. source = NoRequest BY <1>11, PlainAlone DEF PlainAnswer
  <2>2. /\ messages' = Replaced(messages, Answered(last, r)) /\ request' = [request EXCEPT ![r] = "over"]
        /\ source' = source /\ shown' = shown /\ generating' = generating
    BY <1>11, UpdateLastIsReplaced DEF PlainAnswer, Over, last, connection
  <2>3. QED BY <2>1, <2>2, <1>7
<1>12. CASE PlainFails(r)
  <2>1. source = NoRequest BY <1>12, PlainAlone DEF PlainFails
  <2>2. /\ messages' = Replaced(messages, Failed(last, r)) /\ request' = [request EXCEPT ![r] = "over"]
        /\ source' = source /\ shown' = shown /\ generating' = generating
    BY <1>12, UpdateLastIsReplaced DEF PlainFails, Over, last, connection
  <2>3. QED BY <2>1, <2>2, <1>7
<1>13. ~EndsWithoutDone(r) /\ ~NoChoice(r) BY DEF EndsWithoutDone, NoChoice
<1>14. QED BY <1>8, <1>9, <1>10, <1>11, <1>12, <1>13 DEF Event

LEMMA RenderCalm == ASSUME TypesInv, Calm, Render PROVE Calm'
<1>1. /\ shown' = messages /\ generating' \in BOOLEAN /\ (generating' <=> source # NoRequest)
      /\ UNCHANGED <<messages, source, complete, request>>
  BY DEF Render, connection
<1>2. Good(messages)' /\ Good(shown)' BY <1>1 DEF Calm, Good
<1>3. Awaited'
  <2>1. SUFFICES ASSUME NEW r \in Requests, Live(r)'
                 PROVE  messages' # <<>> /\ Waits(messages[Len(messages)], r)'
    BY DEF Awaited
  <2>2. Live(r) BY <2>1, <1>1 DEF Live
  <2>3. messages # <<>> /\ Waits(messages[Len(messages)], r) BY <2>2 DEF Calm, Awaited
  <2>4. request[r] = "plain" => generating' = FALSE
    <3>1. request[r] = "plain" => source = NoRequest BY PlainAlone
    <3>2. QED BY <3>1, <1>1
  <2>5. QED BY <2>3, <2>4, <1>1 DEF Waits
<1>4. Answerable' BY <1>1 DEF Calm, Answerable, Live
<1>5. Connected' BY <1>1 DEF Calm, Connected
<1>6. source # NoRequest => messages # <<>> /\ Stuck(messages[Len(messages)])
  <2>1. SUFFICES ASSUME source # NoRequest PROVE messages # <<>> /\ Stuck(messages[Len(messages)])
    OBVIOUS
  <2>2. source \in Requests /\ Live(source)
    BY <2>1 DEF Calm, Connected, TypesInv, Scalars, Live
  <2>3. QED BY <2>2 DEF Calm, Awaited, Waits
<1>7. Rendered' BY <1>1, <1>6 DEF Rendered
<1>8. QED BY <1>2, <1>3, <1>4, <1>5, <1>7 DEF Calm

LEMMA DeleteCalm == ASSUME TypesInv, Calm, DeleteMessage, strays' = {} PROVE Calm'
<1>1. PICK n \in DOMAIN shown :
          /\ ~generating /\ HasActions(shown[n]) /\ messages' = RemoveAt(shown, n)
          /\ strays' = strays \cup Stale
          /\ UNCHANGED <<shown, generating, source, complete, request>>
  BY DEF DeleteMessage, connection
<1>2. shown = messages BY <1>1 DEF Stale
<1>3. generating = FALSE BY <1>1 DEF TypesInv, Scalars
<1>4. Sound(messages, keys) /\ keys \in Nat BY KeysAreNumbers DEF TypesInv, Lists
<1>5. messages # <<>> /\ Len(messages) \in DOMAIN messages
  <2>1. messages \in Seq(Message) BY <1>4 DEF Sound
  <2>2. DOMAIN messages = 1..Len(messages) /\ Len(messages) \in Nat BY <2>1
  <2>3. n \in 1..Len(messages) BY <1>2, <2>2
  <2>4. Len(messages) \in 1..Len(messages) BY <2>2, <2>3
  <2>5. QED BY <2>2, <2>4
<1>6. source = NoRequest BY <1>2, <1>3, <1>5 DEF Calm, Rendered
<1>7. /\ \A i \in DOMAIN messages' : \E j \in DOMAIN messages : messages'[i] = messages[j]
      /\ n # Len(messages) => messages' # <<>> /\ messages'[Len(messages')] = messages[Len(messages)]
      /\ Good(messages)'
  <2>1. n \in DOMAIN messages /\ Good(messages) BY <1>2 DEF Calm
  <2>2. messages' = RemoveAt(messages, n) BY <1>1, <1>2
  <2>3. /\ \A i \in DOMAIN RemoveAt(messages, n) :
               \E j \in DOMAIN messages : RemoveAt(messages, n)[i] = messages[j]
        /\ n # Len(messages) =>
               /\ RemoveAt(messages, n) # <<>>
               /\ RemoveAt(messages, n)[Len(RemoveAt(messages, n))] = messages[Len(messages)]
        /\ Good(RemoveAt(messages, n))
    BY <2>1, <1>4, RemoveSound
  <2>4. Good(messages)' BY <2>2, <2>3 DEF Good
  <2>5. QED BY <2>2, <2>3, <2>4
<1>8. Awaited'
  <2>1. SUFFICES ASSUME NEW r \in Requests, Live(r)'
                 PROVE  messages' # <<>> /\ Waits(messages[Len(messages)], r)'
    BY DEF Awaited
  <2>2. Live(r) BY <2>1, <1>1 DEF Live
  <2>3. Waits(messages[Len(messages)], r) BY <2>2 DEF Calm, Awaited
  <2>4. request[r] = "plain"
    <3>1. r # NoRequest BY PlaygroundAssumption
    <3>2. request[r] # "stream" BY <3>1, <2>3, <1>6 DEF Waits
    <3>3. QED BY <3>2, <2>2 DEF Live
  <2>5. ~HasActions(messages[Len(messages)]) BY <2>3, <2>4 DEF HasActions, Waits
  <2>6. n # Len(messages) BY <2>5, <1>1, <1>2
  <2>7. QED BY <2>3, <2>6, <1>1, <1>7 DEF Waits
<1>9. Answerable'
  <2>1. ASSUME NEW i \in DOMAIN messages', Stuck(messages'[i]) PROVE Live(messages[i].of)'
    <3>1. PICK j \in DOMAIN messages : messages'[i] = messages[j] BY <1>7
    <3>2. Live(messages[j].of) BY <2>1, <3>1 DEF Calm, Answerable
    <3>3. QED BY <3>1, <3>2, <1>1 DEF Live
  <2>2. QED BY <2>1 DEF Answerable
<1>10. Good(shown)' /\ Connected' BY <1>1 DEF Calm, Good, Connected
<1>11. Rendered' BY <1>1, <1>3, <1>6 DEF Rendered
<1>12. QED BY <1>7, <1>8, <1>9, <1>10, <1>11 DEF Calm

LEMMA StopCalm == ASSUME TypesInv, Calm, Stop PROVE Calm'
<1> DEFINE last == messages[Len(messages)]
<1>1. /\ generating = TRUE /\ source' = NoRequest /\ messages' = Replaced(messages, Stopped(last))
      /\ request' = IF source = NoRequest THEN request ELSE [request EXCEPT ![source] = "over"]
      /\ UNCHANGED <<shown, generating, complete>>
  BY UpdateLastIsReplaced DEF Stop, TypesInv, Scalars
<1>2. Sound(messages, keys) /\ messages \in Seq(Message) BY DEF TypesInv, Lists, Sound
<1>3. CASE source # NoRequest
  <2>1. source \in Requests /\ Live(source) BY <1>3 DEF Calm, Connected, TypesInv, Scalars, Live
  <2>2. messages # <<>> /\ Waits(last, source) BY <2>1 DEF Calm, Awaited
  <2>3. last \in Message
    <3>1. Len(messages) \in DOMAIN messages BY <2>2, <1>2
    <3>2. QED BY <3>1, <1>2
  <2> DEFINE new == Stopped(last)
  <2>4. new \in Message /\ new.key = last.key /\ new.of = last.of /\ new.parts = last.parts /\ ~Stuck(new)
    BY <2>3 DEF Stopped, Stuck, Message, Statuses
  <2>5. new.parts \subseteq {source} BY <2>2, <2>4 DEF Waits
  <2> HIDE DEF new
  <2>6. messages' = Replaced(messages, new) BY <1>1 DEF new
  <2>7. QED BY <1>1, <1>3, <2>1, <2>4, <2>5, <2>6, EndCalm
<1>4. CASE source = NoRequest
  <2>1. \A r \in Requests : ~Live(r)
    <3>1. SUFFICES ASSUME NEW r \in Requests, Live(r) PROVE FALSE OBVIOUS
    <3>2. Waits(last, r) /\ r # NoRequest BY <3>1 DEF Calm, Awaited, Live
    <3>3. request[r] = "plain" BY <3>1, <3>2, <1>4 DEF Waits, Live
    <3>4. generating = FALSE BY <3>3, PlainAlone
    <3>5. QED BY <3>4, <1>1
  <2>2. ASSUME messages # <<>> PROVE ~Stuck(last)
    <3>1. Len(messages) \in DOMAIN messages BY <2>2, <1>2
    <3>2. last \in Message BY <3>1, <1>2
    <3>3. last.of \in Requests \cup {NoRequest} BY <3>2 DEF Message
    <3>4. ~Live(last.of) BY <2>1, <3>3 DEF Live
    <3>5. QED BY <3>1, <3>4 DEF Calm, Answerable
  <2>3. messages' = messages
    <3>1. CASE messages = <<>> BY <3>1, <1>1 DEF Replaced
    <3>2. CASE messages # <<>>
      <4>1. Stopped(last) = last BY <3>2, <2>2 DEF Stopped
      <4>2. [messages EXCEPT ![Len(messages)] = last] = messages BY <3>2, <1>2
      <4>3. QED BY <4>1, <4>2, <1>1 DEF Replaced
    <3>3. QED BY <3>1, <3>2
  <2>4. request' = request /\ source' = source BY <1>1, <1>4
  <2>5. QED BY <2>3, <2>4, <1>1 DEF Calm, Good, Awaited, Waits, Answerable, Live, Connected, Rendered
<1>5. QED BY <1>3, <1>4

LEMMA ReloadCalm == ASSUME TypesInv, Calm, Reload PROVE Calm'
<1>1. PICK saved \in {messages, shown} :
          /\ messages' = Sanitize(saved) /\ shown' = Sanitize(saved)
          /\ generating' = FALSE /\ source' = NoRequest
          /\ request' = [r \in Requests |-> IF Live(r) THEN "over" ELSE request[r]]
  BY DEF Reload
<1>2. Sound(saved, keys) /\ Good(saved) /\ keys \in Nat
  BY KeysAreNumbers DEF TypesInv, Lists, Calm
<1>3. Ended(messages') /\ shown' = messages' BY <1>1, <1>2, SanitizeSound
<1>4. Good(messages)' /\ Good(shown)' BY <1>3 DEF Ended, Good
<1>5. \A r \in Requests : ~Live(r)' BY <1>1 DEF Live
<1>6. Awaited' BY <1>5 DEF Awaited
<1>7. Answerable' BY <1>3 DEF Ended, Answerable
<1>8. Connected' /\ Rendered' BY <1>1 DEF Connected, Rendered
<1>9. QED BY <1>4, <1>6, <1>7, <1>8 DEF Calm

LEMMA SameCalm ==
    ASSUME Calm, UNCHANGED <<messages, shown, generating, source, complete, request>>
    PROVE  Calm'
<1>1. Good(messages)' /\ Good(shown)' BY DEF Calm, Good
<1>2. Awaited' /\ Answerable' BY DEF Calm, Awaited, Answerable, Waits, Live
<1>3. Connected' /\ Rendered' BY DEF Calm, Connected, Rendered
<1>4. QED BY <1>1, <1>2, <1>3 DEF Calm

LEMMA StraysGrow == [Next]_vars => strays \subseteq strays'
<1>1. ASSUME NEW r \in Requests, Click(r) PROVE strays \subseteq strays'
  BY <1>1 DEF Click, Submit, Suggest, SendMessage, Regenerate, SaveAndSubmit, SendChat
<1>2. ASSUME NEW r \in Requests, Event(r) PROVE strays \subseteq strays'
  BY <1>2 DEF Event, Chunk, Done, StreamFails, EndsWithoutDone, PlainAnswer, PlainFails, NoChoice
<1>3. Render \/ OpenEditor \/ CancelEdit \/ SaveEdit \/ DeleteMessage \/ Stop \/ Reload =>
          strays \subseteq strays'
  BY DEF Render, OpenEditor, CancelEdit, SaveEdit, DeleteMessage, Stop, Reload
<1>4. QED BY <1>1, <1>2, <1>3 DEF Next, vars

LEMMA Invariant == Spec => []Inv
<1>1. Init => Inv
  <2>1. SUFFICES ASSUME Init PROVE Calm BY InitTypes DEF Inv
  <2>2. messages = <<>> /\ shown = <<>> /\ generating = FALSE /\ source = NoRequest BY <2>1 DEF Init
  <2>3. DOMAIN messages = {} /\ DOMAIN shown = {} BY <2>2
  <2>4. \A r \in Requests : ~Live(r) BY <2>1 DEF Init, Live
  <2>5. QED BY <2>2, <2>3, <2>4 DEF Calm, Good, Awaited, Answerable, Connected, Rendered
<1>2. Inv /\ [Next]_vars => Inv'
  <2>1. SUFFICES ASSUME TypesInv, strays = {} => Calm, [Next]_vars
                 PROVE  TypesInv' /\ (strays' = {} => Calm')
    BY DEF Inv
  <2>2. CASE UNCHANGED vars
    <3>1. TypesInv' BY <2>1, <2>2 DEF TypesInv, Scalars, Lists, Sound, vars, page, connection
    <3>2. strays' = {} => Calm'
      BY <2>1, <2>2, SameCalm DEF vars, page, connection
    <3>3. QED BY <3>1, <3>2
  <2>3. CASE Next
    <3>1. TypesInv' BY <2>1, <2>3, ClickTypes, EventTypes, PageTypes DEF Next
    <3>2. ASSUME strays' = {} PROVE Calm'
      <4>1. strays = {} BY <2>1, <3>2, StraysGrow
      <4>2. TypesInv /\ Calm BY <2>1, <4>1
      <4>3. ASSUME NEW r \in Requests, Click(r) \/ Event(r) PROVE Calm'
        BY <4>2, <4>3, <3>2, ClickCalm, EventCalm
      <4>4. CASE Render BY <4>2, <4>4, RenderCalm
      <4>5. CASE OpenEditor BY <4>2, <4>5, SameCalm DEF OpenEditor, connection
      <4>6. CASE CancelEdit BY <4>2, <4>6, SameCalm DEF CancelEdit, connection
      <4>7. CASE SaveEdit
        <5>1. shown = messages BY <4>7, <3>2 DEF SaveEdit, Stale
        <5>2. QED BY <5>1, <4>2, <4>7, SameCalm DEF SaveEdit, connection
      <4>8. CASE DeleteMessage BY <4>2, <4>8, <3>2, DeleteCalm
      <4>9. CASE Stop BY <4>2, <4>9, StopCalm
      <4>10. CASE Reload BY <4>2, <4>10, ReloadCalm
      <4>11. QED BY <2>3, <4>3, <4>4, <4>5, <4>6, <4>7, <4>8, <4>9, <4>10 DEF Next
    <3>3. QED BY <3>1, <3>2
  <2>4. QED BY <2>1, <2>2, <2>3
<1>3. QED BY <1>1, <1>2, PTL DEF Spec

\* As long as no request overlaps another, no click works on an outdated list and
\* no reply lacks its choice or its end, a message that waits is the last one and
\* its request is under way.
THEOREM NothingWaitsForEver == Spec => []NothingStuck
<1>1. Inv => NothingStuck
  <2>1. SUFFICES ASSUME TypesInv, Calm PROVE
            \A i \in DOMAIN messages : Stuck(messages[i]) =>
                /\ i = Len(messages) /\ Live(messages[i].of)
                /\ request[messages[i].of] = "stream" => source = messages[i].of
    BY DEF Inv, NothingStuck
  <2>2. SUFFICES ASSUME NEW i \in DOMAIN messages, Stuck(messages[i])
                 PROVE  /\ i = Len(messages) /\ Live(messages[i].of)
                        /\ request[messages[i].of] = "stream" => source = messages[i].of
    OBVIOUS
  <2>3. i = Len(messages) /\ Live(messages[i].of) BY <2>1, <2>2 DEF Calm, Good, Answerable
  <2>4. messages[i] \in Message BY <2>1 DEF TypesInv, Lists, Sound
  <2>5. messages[i].of \in Requests BY <2>3, <2>4 DEF Message, Live
  <2>6. Waits(messages[Len(messages)], messages[i].of) BY <2>1, <2>3, <2>5 DEF Calm, Awaited
  <2>7. QED BY <2>3, <2>6 DEF Waits
<1>2. QED BY <1>1, Invariant, PTL

\* Under the same conditions every message shows only what its own request brought.
THEOREM AnswersAreOwn == Spec => []OwnAnswers
<1>1. Inv => OwnAnswers BY DEF Inv, Calm, Good, OwnAnswers
<1>2. QED BY <1>1, Invariant, PTL
=============================================================================
