-------------------------- MODULE AdminTokensProofs --------------------------
(***************************************************************************)
(* For any nodes, tokens, snapshots, faults and restarts: old snapshots     *)
(* undo nothing, the order in which snapshots arrive does not matter, every *)
(* history tells its record's status, and what was acknowledged survives a  *)
(* restart as long as nothing failed.                                      *)
(***************************************************************************)
EXTENDS AdminTokens, SequenceTheorems, TLAPS

(* Every place that holds records, and every record of a token there.      *)
Copies ==
  {memory[n] : n \in Nodes} \cup {disk[n] : n \in Nodes}
    \cup sent \cup UNION {late[n] : n \in Nodes}

Held(t) == {s[t] : s \in {z \in Copies : t \in Known(z)}}

(* A mutation UUID that was drawn names one version of a record.           *)
Stamped ==
  \A t \in Tokens : \A r \in Held(t) :
    /\ r.mutation \notin unused
    /\ \A q \in Held(t) : q.mutation = r.mutation => q = r

(* Without faults the file lags behind memory only while the write guard    *)
(* is held, and never behind an answer.                                    *)
Durable(n) ==
  /\ late[n] = {}
  /\ pc[n] # "rename" => disk[n] = memory[n]
  /\ \A t \in Tokens : /\ acked[n][t] <= Revision(disk[n], t)
                       /\ Revision(disk[n], t) <= Revision(memory[n], t)

Clean == faults = 0 => \A n \in Nodes : Durable(n)

(* The revision, status and stamp of a record are those of its last entry.  *)
Explained(r) ==
  LET k == Len(r.history)
  IN  /\ r.revision = k + 1
      /\ k = 0 => r.enabled
      /\ k > 0 => r.history[k] = [enabled |-> r.enabled, mutation |-> r.mutation]

(* A token starts enabled and every change counts, so the revision says     *)
(* which status it is.                                                     *)
Alternates(r) == r.enabled <=> r.revision % 2 = 1

(* So is it with every record anywhere, a stale file or snapshot included.   *)
Told == \A t \in Tokens : \A r \in Held(t) : Explained(r) /\ Alternates(r)

TokenInv == TypeOK /\ Stamped /\ Clean /\ Told

(* What a step does to the records held anywhere: it only moves them about,  *)
(* or it writes one, new or switched, with a fresh UUID.                    *)
NothingNew == unused' \subseteq unused /\ \A t \in Tokens : Held(t)' \subseteq Held(t)

Written(t0, r, u) ==
  \/ r = [enabled |-> TRUE, revision |-> 1, mutation |-> u, history |-> <<>>]
  \/ \E q \in Held(t0), on \in BOOLEAN : q.enabled # on /\ r = Switched(q, on, u)

OneNew ==
  \E t0 \in Tokens, u \in Mutations, r \in Records :
    /\ Draw(u) /\ r.mutation = u /\ Written(t0, r, u)
    /\ \A t \in Tokens : Held(t)' \subseteq Held(t) \cup {x \in {r} : t = t0}

-----------------------------------------------------------------------------
LEMMA RecordTypes ==
  ASSUME NEW r \in Records
  PROVE  /\ r.enabled \in BOOLEAN /\ r.revision \in Nat
         /\ r.mutation \in Mutations /\ r.mutation \in Nat
         /\ r.history \in Seq(Entries)
  BY MutationAssumption DEF Records

LEMMA StoreTypes ==
  ASSUME NEW s \in Stores, NEW t \in Tokens
  PROVE  /\ t \in Known(s) => s[t] \in Records
         /\ t \notin Known(s) => s[t] = Absent
         /\ Revision(s, t) \in Nat
  <1>1. t \in Known(s) => s[t] \in Records
    BY DEF Stores, Known
  <1>2. t \notin Known(s) => s[t] = Absent
    BY DEF Known
  <1>3. Revision(s, t) \in Nat
    BY <1>1, RecordTypes DEF Revision
  <1> QED BY <1>1, <1>2, <1>3

LEMMA SwitchedType ==
  ASSUME NEW r \in Records, NEW on \in BOOLEAN, NEW u \in Mutations
  PROVE  /\ Switched(r, on, u) \in Records
         /\ Switched(r, on, u).revision = r.revision + 1
         /\ Switched(r, on, u).mutation = u
  <1>1. [enabled |-> on, mutation |-> u] \in Entries
    BY DEF Entries
  <1>2. Append(r.history, [enabled |-> on, mutation |-> u]) \in Seq(Entries)
    BY <1>1, RecordTypes, AppendProperties
  <1> QED BY <1>2, RecordTypes DEF Switched, Records

(* A merge keeps or replaces each record, and only by a newer one.         *)
LEMMA JoinedTypes ==
  ASSUME NEW s \in Stores, NEW z \in Stores
  PROVE  /\ Joined(s, z) \in Stores
         /\ \A t \in Tokens :
              /\ \/ Joined(s, z)[t] = s[t]
                 \/ t \in Known(z) /\ Joined(s, z)[t] = z[t]
              /\ t \in Known(Joined(s, z)) <=> t \in Known(s) \/ t \in Known(z)
              /\ Revision(s, t) <= Revision(Joined(s, z), t)
  <1> DEFINE j == Joined(s, z)
  <1>1. j \in Stores
    BY DEF Joined, Stores, Adopted
  <1>2. ASSUME NEW t \in Tokens
        PROVE  /\ j[t] = s[t] \/ (t \in Known(z) /\ j[t] = z[t])
               /\ t \in Known(j) <=> t \in Known(s) \/ t \in Known(z)
               /\ Revision(s, t) <= Revision(j, t)
    <2>1. j[t] = IF t \notin Known(z) THEN s[t]
                 ELSE IF t \notin Known(s) THEN z[t]
                 ELSE IF Wins(z[t], s[t]) THEN z[t] ELSE s[t]
      BY DEF Joined, Adopted
    <2>2. j[t] = s[t] \/ (t \in Known(z) /\ j[t] = z[t])
      BY <2>1
    <2>3. t \in Known(j) <=> t \in Known(s) \/ t \in Known(z)
      BY <2>1 DEF Known
    <2>4. CASE j[t] = s[t]
      BY <2>4, <2>2, <2>3, StoreTypes DEF Revision, Known
    <2>5. CASE t \notin Known(s)
      <3>1. Revision(s, t) = 0 BY <2>5 DEF Revision
      <3>2. Revision(j, t) \in Nat BY <1>1, StoreTypes
      <3> QED BY <3>1, <3>2, <2>2, <2>3
    <2>6. CASE t \in Known(s) /\ t \in Known(z) /\ Wins(z[t], s[t])
      <3>1. z[t].revision \in Nat /\ s[t].revision \in Nat
        BY <2>6, StoreTypes, RecordTypes
      <3>2. j[t] = z[t] BY <2>1, <2>6
      <3>3. Revision(j, t) = z[t].revision /\ Revision(s, t) = s[t].revision
        BY <3>2, <2>3, <2>6 DEF Revision
      <3>4. s[t].revision <= z[t].revision
        BY <3>1, <2>6 DEF Wins
      <3> QED BY <3>3, <3>4, <2>2, <2>3
    <2> QED BY <2>1, <2>4, <2>5, <2>6
  <1> QED BY <1>1, <1>2

-----------------------------------------------------------------------------
LEMMA InitTyped == Init => TypeOK
  BY DEF Init, TypeOK, Empty, Stores

(* Each action keeps every variable in its type.                           *)
LEMMA NextTyped == TypeOK /\ [Next]_vars => TypeOK'
  <1> SUFFICES ASSUME TypeOK, [Next]_vars PROVE TypeOK'
    OBVIOUS
  <1> USE DEF TypeOK
  <1>1. ASSUME NEW n \in Nodes, NEW t \in Tokens, SetEnabledAgain(n, t) PROVE TypeOK'
    <2>1. Revision(memory[n], t) \in Nat BY StoreTypes
    <2> QED BY <1>1, <2>1 DEF SetEnabledAgain, Acknowledge
  <1>2. ASSUME NEW n \in Nodes, NEW t \in Tokens, NEW u \in Mutations, Create(n, t, u)
        PROVE TypeOK'
    <2>1. [enabled |-> TRUE, revision |-> 1, mutation |-> u, history |-> <<>>] \in Records
      BY DEF Records
    <2> QED BY <1>2, <2>1 DEF Create, Change, Draw, Stores
  <1>3. ASSUME NEW n \in Nodes, NEW t \in Tokens, NEW u \in Mutations, NEW on \in BOOLEAN,
               SetEnabled(n, t, on, u)
        PROVE TypeOK'
    <2>1. memory[n] \in Stores /\ memory[n][t] \in Records
      BY <1>3, StoreTypes DEF SetEnabled
    <2>2. [memory[n] EXCEPT ![t] = Switched(@, on, u)] \in Stores
      BY <2>1, SwitchedType DEF Stores
    <2> QED BY <1>3, <2>2 DEF SetEnabled, Change, Draw
  <1>4. ASSUME NEW n \in Nodes, Fetch(n) PROVE TypeOK'
    BY <1>4 DEF Fetch
  <1>5. ASSUME NEW n \in Nodes, NEW s \in sent, Merge(n, s) PROVE TypeOK'
    <2>1. Joined(memory[n], s) \in Stores BY JoinedTypes
    <2> QED BY <1>5, <2>1 DEF Merge, Change
  <1>6. ASSUME NEW n \in Nodes, Rename(n) PROVE TypeOK'
    BY <1>6 DEF Rename
  <1>7. ASSUME NEW n \in Nodes, Reply(n) PROVE TypeOK'
    <2>1. CASE subject[n] = NoToken
      BY <1>7, <2>1 DEF Reply, Release
    <2>2. CASE subject[n] \in Tokens
      <3>1. Revision(memory[n], subject[n]) \in Nat BY <2>2, StoreTypes
      <3>2. subject[n] # NoToken BY <2>2, MarkerAssumption
      <3>3. /\ UNCHANGED <<memory, disk, sent, late, unused, faults, restarts>>
            /\ Release(n) /\ Acknowledge(n, subject[n])
        BY <1>7, <3>2 DEF Reply
      <3>4. acked' \in [Nodes -> [Tokens -> Nat]]
        BY <2>2, <3>1, <3>3 DEF Acknowledge
      <3> QED BY <3>3, <3>4 DEF Release
    <2> QED BY <2>1, <2>2
  <1>8. ASSUME NEW n \in Nodes, PersistFails(n) PROVE TypeOK'
    BY <1>8 DEF PersistFails, Release
  <1>9. ASSUME NEW n \in Nodes, Cancel(n) PROVE TypeOK'
    BY <1>9 DEF Cancel, Release
  <1>10. ASSUME NEW n \in Nodes, NEW s \in late[n], LateRename(n, s) PROVE TypeOK'
    BY <1>10 DEF LateRename
  <1>11. ASSUME NEW n \in Nodes, Restart(n) PROVE TypeOK'
    BY <1>11 DEF Restart, Release
  <1>12. CASE UNCHANGED vars
    BY <1>12 DEF vars
  <1> QED BY <1>1, <1>2, <1>3, <1>4, <1>5, <1>6, <1>7, <1>8, <1>9, <1>10, <1>11, <1>12
          DEF Next, Owner

-----------------------------------------------------------------------------
(* Records that only move about: no place holds one that none held before.  *)
LEMMA RecordsMoved ==
  ASSUME TypeOK, unused' \subseteq unused,
         \A z \in Copies' : \A t \in Tokens : t \in Known(z) => z[t] \in Held(t)
  PROVE  NothingNew
  BY DEF NothingNew, Held, Known

LEMMA CopiesHeld ==
  \A z \in Copies : \A t \in Tokens : t \in Known(z) => z[t] \in Held(t)
  BY DEF Held

LEMMA HeldTypes ==
  ASSUME TypeOK, NEW t \in Tokens, NEW r \in Held(t)
  PROVE  r \in Records
  <1>1. PICK z \in Copies : t \in Known(z) /\ r = z[t]
    BY DEF Held
  <1>2. z \in Stores
    BY DEF TypeOK, Copies
  <1> QED BY <1>1, <1>2, StoreTypes

LEMMA RecordsCopied ==
  ASSUME TypeOK, unused' \subseteq unused, Copies' \subseteq Copies
  PROVE  NothingNew
  BY RecordsMoved, CopiesHeld

(* The one record a change writes, with a fresh UUID.                      *)
LEMMA RecordDrawn ==
  ASSUME TypeOK,
         NEW n \in Nodes, NEW t0 \in Tokens, NEW r \in Records, NEW u \in Mutations,
         Draw(u), r.mutation = u, Written(t0, r, u),
         memory' = [memory EXCEPT ![n] = [memory[n] EXCEPT ![t0] = r]],
         disk' = disk, late' = late, sent' = sent
  PROVE  OneNew
  <1>2. Copies' \subseteq Copies \cup {memory'[n]}
    BY DEF Copies, TypeOK
  <1>3. memory[n] \in Copies
    BY DEF Copies
  <1>4. memory[n] \in Stores /\ memory'[n] = [memory[n] EXCEPT ![t0] = r]
    BY DEF TypeOK
  <1>5. \A t \in Tokens : t # t0 => memory'[n][t] = memory[n][t]
    BY <1>4 DEF Stores
  <1>6. memory'[n][t0] = r
    BY <1>4 DEF Stores
  <1>7. \A t \in Tokens : Held(t)' \subseteq Held(t) \cup {x \in {r} : t = t0}
    <2> SUFFICES ASSUME NEW t \in Tokens, NEW z \in Copies', t \in Known(z), z[t] # r \/ t # t0
                 PROVE  z[t] \in Held(t)
      BY DEF Held, Known
    <2>1. CASE z \in Copies
      BY <2>1, CopiesHeld
    <2>2. CASE z = memory'[n]
      <3>1. t # t0 BY <2>2, <1>6
      <3>2. z[t] = memory[n][t] BY <2>2, <3>1, <1>5
      <3>3. t \in Known(memory[n]) BY <3>2 DEF Known
      <3> QED BY <3>2, <3>3, <1>3, CopiesHeld
    <2> QED BY <2>1, <2>2, <1>2
  <1> QED BY <1>7 DEF OneNew

LEMMA InitStamped == Init => Stamped
  <1> SUFFICES ASSUME Init PROVE Stamped
    OBVIOUS
  <1>1. \A z \in Copies : z = Empty
    BY DEF Init, Copies
  <1>2. \A t \in Tokens : t \notin Known(Empty)
    BY DEF Known, Empty
  <1>3. \A t \in Tokens : Held(t) = {}
    BY <1>1, <1>2 DEF Held
  <1> QED BY <1>3 DEF Stamped

(* Each action moves records about or writes one.                           *)
LEMMA NextRecords == TypeOK /\ [Next]_vars => NothingNew \/ OneNew
  <1> SUFFICES ASSUME TypeOK, [Next]_vars PROVE NothingNew \/ OneNew
    OBVIOUS
  <1>1. ASSUME NEW n \in Nodes, NEW t \in Tokens, SetEnabledAgain(n, t) PROVE NothingNew \/ OneNew
    <2>1. Copies' \subseteq Copies /\ unused' = unused
      BY <1>1 DEF SetEnabledAgain, Copies
    <2> QED BY <2>1, RecordsCopied
  <1>2. ASSUME NEW n \in Nodes, NEW t \in Tokens, NEW u \in Mutations, Create(n, t, u)
        PROVE NothingNew \/ OneNew
    <2> DEFINE r == [enabled |-> TRUE, revision |-> 1, mutation |-> u, history |-> <<>>]
    <2>1. r \in Records /\ r.mutation = u
      BY DEF Records
    <2>3. Written(t, r, u)
      BY DEF Written
    <2>2. /\ Draw(u)
          /\ memory' = [memory EXCEPT ![n] = [memory[n] EXCEPT ![t] = r]]
          /\ disk' = disk /\ late' = late /\ sent' = sent
      BY <1>2 DEF Create, Change
    <2> HIDE DEF r
    <2> QED BY <2>1, <2>2, <2>3, RecordDrawn
  <1>3. ASSUME NEW n \in Nodes, NEW t \in Tokens, NEW u \in Mutations, NEW on \in BOOLEAN,
               SetEnabled(n, t, on, u)
        PROVE NothingNew \/ OneNew
    <2> DEFINE r == Switched(memory[n][t], on, u)
    <2>1. memory[n] \in Stores /\ memory[n][t] \in Records
      BY <1>3, StoreTypes DEF SetEnabled, TypeOK
    <2>2. r \in Records /\ r.mutation = u
      BY <2>1, SwitchedType
    <2>4. Written(t, r, u)
      <3>1. memory[n] \in Copies /\ t \in Known(memory[n])
        BY <1>3 DEF SetEnabled, Copies
      <3>2. memory[n][t] \in Held(t)
        BY <3>1, CopiesHeld
      <3>3. memory[n][t].enabled # on
        BY <1>3 DEF SetEnabled, Differs
      <3> QED BY <3>2, <3>3 DEF Written
    <2>3. /\ Draw(u)
          /\ memory' = [memory EXCEPT ![n] = [memory[n] EXCEPT ![t] = r]]
          /\ disk' = disk /\ late' = late /\ sent' = sent
      BY <1>3, <2>1 DEF SetEnabled, Change, Stores
    <2> HIDE DEF r
    <2> QED BY <2>2, <2>3, <2>4, RecordDrawn
  <1>4. ASSUME NEW n \in Nodes, Fetch(n) PROVE NothingNew \/ OneNew
    <2>1. Copies' \subseteq Copies /\ unused' = unused
      BY <1>4 DEF Fetch, Copies
    <2> QED BY <2>1, RecordsCopied
  <1>5. ASSUME NEW n \in Nodes, NEW s \in sent, Merge(n, s) PROVE NothingNew \/ OneNew
    <2> DEFINE j == Joined(memory[n], s)
    <2>1. memory[n] \in Stores /\ s \in Stores /\ memory[n] \in Copies /\ s \in Copies
      BY DEF TypeOK, Copies
    <2>2. /\ memory' = [memory EXCEPT ![n] = j] /\ unused' = unused
          /\ disk' = disk /\ late' = late /\ sent' = sent
      BY <1>5 DEF Merge, Change
    <2>3. ASSUME NEW t \in Tokens, t \in Known(j) PROVE j[t] \in Held(t)
      <3>1. j[t] = memory[n][t] \/ (t \in Known(s) /\ j[t] = s[t])
        BY <2>1, JoinedTypes
      <3>2. j[t] # Absent
        BY <2>3 DEF Known
      <3>3. j[t] = memory[n][t] => t \in Known(memory[n])
        BY <3>2 DEF Known
      <3> QED BY <3>1, <3>3, <2>1, CopiesHeld
    <2> HIDE DEF j
    <2>4. \A z \in Copies' : z \in Copies \/ z = j
      BY <2>2 DEF Copies, TypeOK
    <2> QED BY <2>2, <2>3, <2>4, CopiesHeld, RecordsMoved
  <1>6. ASSUME NEW n \in Nodes, Rename(n) PROVE NothingNew \/ OneNew
    <2>1. Copies' \subseteq Copies /\ unused' = unused
      BY <1>6 DEF Rename, Copies, TypeOK
    <2> QED BY <2>1, RecordsCopied
  <1>7. ASSUME NEW n \in Nodes, Reply(n) \/ PersistFails(n) PROVE NothingNew \/ OneNew
    <2>1. Copies' \subseteq Copies /\ unused' = unused
      BY <1>7 DEF Reply, PersistFails, Copies
    <2> QED BY <2>1, RecordsCopied
  <1>8. ASSUME NEW n \in Nodes, Cancel(n) PROVE NothingNew \/ OneNew
    <2>1. unused' = unused /\ disk' = disk /\ memory' = memory /\ sent' = sent
      BY <1>8 DEF Cancel
    <2>2. \A m \in Nodes : late'[m] \subseteq late[m] \cup {memory[n]}
      BY <1>8 DEF Cancel, TypeOK
    <2>3. Copies' \subseteq Copies
      BY <2>1, <2>2 DEF Copies
    <2> QED BY <2>1, <2>3, RecordsCopied
  <1>9. ASSUME NEW n \in Nodes, NEW s \in late[n], LateRename(n, s) PROVE NothingNew \/ OneNew
    <2>1. unused' = unused /\ memory' = memory /\ sent' = sent
      BY <1>9 DEF LateRename
    <2>2. \A m \in Nodes : late'[m] \subseteq late[m] /\ disk'[m] \in {disk[m], s}
      BY <1>9 DEF LateRename, TypeOK
    <2>3. Copies' \subseteq Copies
      BY <2>1, <2>2 DEF Copies
    <2> QED BY <2>1, <2>3, RecordsCopied
  <1>10. ASSUME NEW n \in Nodes, Restart(n) PROVE NothingNew \/ OneNew
    <2>1. unused' = unused /\ disk' = disk /\ sent' = sent
      BY <1>10 DEF Restart
    <2>2. \A m \in Nodes : late'[m] \subseteq late[m] /\ memory'[m] \in {memory[m], disk[m]}
      BY <1>10 DEF Restart, TypeOK
    <2>3. Copies' \subseteq Copies
      BY <2>1, <2>2 DEF Copies
    <2> QED BY <2>1, <2>3, RecordsCopied
  <1>11. CASE UNCHANGED vars
    <2>1. Copies' \subseteq Copies /\ unused' = unused
      BY <1>11 DEF vars, Copies
    <2> QED BY <2>1, RecordsCopied
  <1> QED BY <1>1, <1>2, <1>3, <1>4, <1>5, <1>6, <1>7, <1>8, <1>9, <1>10, <1>11
          DEF Next, Owner

(* Each action keeps the records stamped.                                  *)
LEMMA NextStamped == TypeOK /\ Stamped /\ [Next]_vars => Stamped'
  <1> SUFFICES ASSUME TypeOK, Stamped, [Next]_vars PROVE Stamped'
    OBVIOUS
  <1>1. CASE NothingNew
    BY <1>1 DEF NothingNew, Stamped
  <1>2. CASE OneNew
    <2>1. PICK t0 \in Tokens, u \in Mutations, r \in Records :
            /\ Draw(u) /\ r.mutation = u
            /\ \A t \in Tokens : Held(t)' \subseteq Held(t) \cup {x \in {r} : t = t0}
      BY <1>2 DEF OneNew
    <2>2. u \in unused /\ unused' = unused \ {u}
      BY <2>1 DEF Draw
    <2>3. ASSUME NEW t \in Tokens, NEW a \in Held(t)', NEW b \in Held(t)'
          PROVE  a.mutation \notin unused' /\ (b.mutation = a.mutation => b = a)
      <3>1. \A x \in Held(t) : x.mutation # u /\ x.mutation \notin unused
        BY <2>2 DEF Stamped
      <3>2. (a \in Held(t) \/ a = r) /\ (b \in Held(t) \/ b = r)
        BY <2>1
      <3> QED BY <2>1, <2>2, <3>1, <3>2 DEF Stamped
    <2> QED BY <2>3 DEF Stamped
  <1> QED BY <1>1, <1>2, NextRecords

-----------------------------------------------------------------------------
(* Histories                                                               *)

LEMMA SwitchedIsExplained ==
  ASSUME NEW q \in Records, Explained(q), NEW on \in BOOLEAN, NEW u \in Mutations
  PROVE  Explained(Switched(q, on, u))
  <1> DEFINE e == [enabled |-> on, mutation |-> u]
             h == Append(q.history, e)
             k == Len(q.history)
  <1>1. e \in Entries /\ q.history \in Seq(Entries)
    BY RecordTypes DEF Entries
  <1>2. Len(h) = k + 1 /\ h[k + 1] = e /\ k \in Nat
    BY <1>1, AppendProperties, LenProperties
  <1>3. q.revision = k + 1
    BY DEF Explained
  <1> HIDE DEF k
  <1>4. /\ Switched(q, on, u).history = h /\ Switched(q, on, u).revision = q.revision + 1
        /\ Switched(q, on, u).enabled = on /\ Switched(q, on, u).mutation = u
    BY DEF Switched
  <1> HIDE DEF h
  <1> QED BY <1>2, <1>3, <1>4 DEF Explained

LEMMA SwitchedAlternates ==
  ASSUME NEW q \in Records, Alternates(q), NEW on \in BOOLEAN, q.enabled # on, NEW u \in Mutations
  PROVE  Alternates(Switched(q, on, u))
  <1>1. q.revision \in Nat /\ q.enabled \in BOOLEAN
    BY RecordTypes
  <1>2. Switched(q, on, u).enabled = on /\ Switched(q, on, u).revision = q.revision + 1
    BY DEF Switched
  <1>3. (q.revision + 1) % 2 = 1 <=> ~(q.revision % 2 = 1)
    BY <1>1
  <1> QED BY <1>1, <1>2, <1>3 DEF Alternates

LEMMA InitTold == Init => Told
  <1> SUFFICES ASSUME Init PROVE Told
    OBVIOUS
  <1>1. \A z \in Copies : z = Empty
    BY DEF Init, Copies
  <1>2. \A t \in Tokens : t \notin Known(Empty)
    BY DEF Known, Empty
  <1>3. \A t \in Tokens : Held(t) = {}
    BY <1>1, <1>2 DEF Held
  <1> QED BY <1>3 DEF Told

LEMMA NextTold == TypeOK /\ Told /\ [Next]_vars => Told'
  <1> SUFFICES ASSUME TypeOK, Told, [Next]_vars PROVE Told'
    OBVIOUS
  <1>1. CASE NothingNew
    BY <1>1 DEF NothingNew, Told
  <1>2. CASE OneNew
    <2>1. PICK t0 \in Tokens, u \in Mutations, r \in Records :
            /\ Written(t0, r, u)
            /\ \A t \in Tokens : Held(t)' \subseteq Held(t) \cup {x \in {r} : t = t0}
      BY <1>2 DEF OneNew
    <2>2. Explained(r) /\ Alternates(r)
      <3>1. CASE r = [enabled |-> TRUE, revision |-> 1, mutation |-> u, history |-> <<>>]
        <4>1. Len(<<>>) = 0 /\ 1 % 2 = 1
          OBVIOUS
        <4> QED BY <3>1, <4>1 DEF Explained, Alternates
      <3>2. ASSUME NEW q \in Held(t0), NEW on \in BOOLEAN, q.enabled # on, r = Switched(q, on, u)
            PROVE  Explained(r) /\ Alternates(r)
        <4>1. q \in Records
          BY HeldTypes
        <4>2. Explained(q) /\ Alternates(q)
          BY DEF Told
        <4> QED BY <3>2, <4>1, <4>2, SwitchedIsExplained, SwitchedAlternates
      <3> QED BY <2>1, <3>1, <3>2 DEF Written
    <2> QED BY <2>1, <2>2 DEF Told
  <1> QED BY <1>1, <1>2, NextRecords

-----------------------------------------------------------------------------
LEMMA InitClean == Init => Clean
  BY DEF Init, Clean, Durable, Empty, Known, Revision

(* Each action keeps acknowledged changes on disk while nothing has failed. *)
LEMMA NextClean == TypeOK /\ Clean /\ [Next]_vars => Clean'
  <1> SUFFICES ASSUME TypeOK, Clean, [Next]_vars, faults' = 0
               PROVE  \A m \in Nodes : Durable(m)'
    BY DEF Clean
  <1>0. \A m \in Nodes : memory[m] \in Stores /\ disk[m] \in Stores
    BY DEF TypeOK
  <1>r. \A m \in Nodes, t \in Tokens :
          /\ Revision(memory[m], t) \in Nat /\ Revision(disk[m], t) \in Nat
          /\ acked[m][t] \in Nat
    BY <1>0, StoreTypes DEF TypeOK
  (* The records of one node change in memory, to newer ones, and the guard *)
  (* is held.                                                               *)
  <1>c. ASSUME NEW n \in Nodes, NEW store \in Stores, NEW t0, Guarded(n), faults' = faults,
               Change(n, store, t0),
               disk' = disk, late' = late, acked' = acked,
               \A t \in Tokens : Revision(memory[n], t) <= Revision(store, t)
        PROVE  \A m \in Nodes : Durable(m)'
    <2> SUFFICES ASSUME NEW m \in Nodes PROVE Durable(m)'
      OBVIOUS
    <2>1. Durable(m) BY <1>c DEF Clean
    <2>2. CASE m # n
      <3>1. memory'[m] = memory[m] /\ pc'[m] = pc[m]
        BY <1>c, <2>2 DEF Change, TypeOK
      <3> QED BY <2>1, <3>1, <1>c DEF Durable
    <2>3. CASE m = n
      <3>1. memory'[m] = store /\ pc'[m] = "rename" /\ disk[m] = memory[m]
        BY <1>c, <2>3, <2>1 DEF Change, TypeOK, Durable, Guarded
      <3>2. late'[m] = {}
        BY <1>c, <2>1 DEF Durable
      <3>3. ASSUME NEW t \in Tokens
            PROVE  /\ acked'[m][t] <= Revision(disk'[m], t)
                   /\ Revision(disk'[m], t) <= Revision(memory'[m], t)
        BY <1>c, <2>1, <2>3, <3>1 DEF Durable
      <3> QED BY <3>1, <3>2, <3>3 DEF Durable
    <2> QED BY <2>2, <2>3
  (* An answer acknowledges what is already on disk.                        *)
  <1>a. ASSUME NEW n \in Nodes, NEW t0 \in Tokens, disk[n] = memory[n], faults' = faults,
               Acknowledge(n, t0),
               memory' = memory, disk' = disk, late' = late,
               \A m \in Nodes : pc'[m] \in {pc[m], "idle"},
               \A m \in Nodes : m # n => pc'[m] = pc[m]
        PROVE  \A m \in Nodes : Durable(m)'
    <2> SUFFICES ASSUME NEW m \in Nodes PROVE Durable(m)'
      OBVIOUS
    <2>1. Durable(m) BY <1>a DEF Clean
    <2>2. pc'[m] # "rename" => disk[m] = memory[m]
      BY <2>1, <1>a DEF Durable
    <2>3. ASSUME NEW t \in Tokens PROVE acked'[m][t] <= Revision(disk[m], t)
      <3>1. \/ acked'[m][t] = acked[m][t]
            \/ m = n /\ acked'[m][t] = Revision(memory[n], t)
        <4>1. CASE m = n /\ t = t0
          BY <4>1, <1>a DEF Acknowledge, TypeOK
        <4>2. CASE m = n /\ t # t0
          BY <4>2, <1>a DEF Acknowledge, TypeOK
        <4>3. CASE m # n
          BY <4>3, <1>a DEF Acknowledge, TypeOK
        <4> QED BY <4>1, <4>2, <4>3
      <3>2. acked[m][t] <= Revision(disk[m], t)
        BY <2>1 DEF Durable
      <3> QED BY <3>1, <3>2, <1>a, <1>r
    <2> QED BY <2>1, <2>2, <2>3, <1>a DEF Durable
  <1>1. ASSUME NEW n \in Nodes, NEW t \in Tokens, SetEnabledAgain(n, t)
        PROVE \A m \in Nodes : Durable(m)'
    <2>1. faults = 0 BY <1>1 DEF SetEnabledAgain
    <2>2. disk[n] = memory[n]
      BY <1>1, <2>1 DEF SetEnabledAgain, Guarded, Clean, Durable
    <2> QED BY <1>1, <2>2, <1>a DEF SetEnabledAgain
  <1>2. ASSUME NEW n \in Nodes, NEW t \in Tokens, NEW u \in Mutations, Create(n, t, u)
        PROVE \A m \in Nodes : Durable(m)'
    <2> DEFINE r == [enabled |-> TRUE, revision |-> 1, mutation |-> u, history |-> <<>>]
               store == [memory[n] EXCEPT ![t] = r]
    <2>1. r \in Records BY DEF Records
    <2>2. store \in Stores BY <2>1, <1>0 DEF Stores
    <2>3. t \notin Known(memory[n]) BY <1>2 DEF Create, New
    <2>4. \A z \in Tokens : z # t => store[z] = memory[n][z]
      BY <1>0 DEF Stores
    <2>5. \A z \in Tokens : Revision(memory[n], z) <= Revision(store, z)
      <3> SUFFICES ASSUME NEW z \in Tokens
                   PROVE  Revision(memory[n], z) <= Revision(store, z)
        OBVIOUS
      <3>1. CASE z = t
        <4>1. Revision(memory[n], z) = 0 BY <3>1, <2>3 DEF Revision
        <4>2. Revision(store, z) \in Nat BY <2>2, StoreTypes
        <4> QED BY <4>1, <4>2
      <3>2. CASE z # t
        <4>1. Revision(store, z) = Revision(memory[n], z)
          BY <3>2, <2>4 DEF Revision, Known
        <4> QED BY <4>1, <1>r
      <3> QED BY <3>1, <3>2
    <2>6. /\ Change(n, store, t) /\ Guarded(n) /\ faults' = faults
          /\ disk' = disk /\ late' = late /\ acked' = acked
      BY <1>2 DEF Create
    <2> HIDE DEF store
    <2> QED BY <2>2, <2>5, <2>6, <1>c
  <1>3. ASSUME NEW n \in Nodes, NEW t \in Tokens, NEW u \in Mutations, NEW on \in BOOLEAN,
               SetEnabled(n, t, on, u)
        PROVE \A m \in Nodes : Durable(m)'
    <2> DEFINE r == Switched(memory[n][t], on, u)
               store == [memory[n] EXCEPT ![t] = r]
    <2>1. memory[n][t] \in Records /\ t \in Known(memory[n])
      BY <1>3, <1>0, StoreTypes DEF SetEnabled
    <2>2. r \in Records /\ r.revision = memory[n][t].revision + 1
      BY <2>1, SwitchedType
    <2>3. store \in Stores BY <2>2, <1>0 DEF Stores
    <2>4. store[t] = r /\ \A z \in Tokens : z # t => store[z] = memory[n][z]
      BY <1>0 DEF Stores
    <2> HIDE DEF r
    <2>5. \A z \in Tokens : Revision(memory[n], z) <= Revision(store, z)
      <3> SUFFICES ASSUME NEW z \in Tokens
                   PROVE  Revision(memory[n], z) <= Revision(store, z)
        OBVIOUS
      <3>1. CASE z = t
        <4>1. Revision(memory[n], t) = memory[n][t].revision
          BY <2>1 DEF Revision
        <4>2. Revision(store, t) = r.revision
          BY <2>2, <2>4, MarkerAssumption DEF Revision, Known
        <4>3. memory[n][t].revision \in Nat
          BY <2>1, RecordTypes
        <4> QED BY <3>1, <4>1, <4>2, <4>3, <2>2
      <3>2. CASE z # t
        <4>1. Revision(store, z) = Revision(memory[n], z)
          BY <3>2, <2>4 DEF Revision, Known
        <4> QED BY <4>1, <1>r
      <3> QED BY <3>1, <3>2
    <2>6. /\ Change(n, store, t) /\ Guarded(n) /\ faults' = faults
          /\ disk' = disk /\ late' = late /\ acked' = acked
      BY <1>3, <1>0 DEF SetEnabled, Stores, r
    <2> HIDE DEF store
    <2> QED BY <2>3, <2>5, <2>6, <1>c
  <1>4. ASSUME NEW n \in Nodes, Fetch(n) PROVE \A m \in Nodes : Durable(m)'
    BY <1>4 DEF Fetch, Clean, Durable
  <1>5. ASSUME NEW n \in Nodes, NEW s \in sent, Merge(n, s)
        PROVE \A m \in Nodes : Durable(m)'
    <2>1. s \in Stores BY DEF TypeOK
    <2>2. /\ Joined(memory[n], s) \in Stores
          /\ \A t \in Tokens : Revision(memory[n], t) <= Revision(Joined(memory[n], s), t)
      BY <1>0, <2>1, JoinedTypes
    <2> QED BY <1>5, <2>2, <1>c DEF Merge
  <1>6. ASSUME NEW n \in Nodes, Rename(n) PROVE \A m \in Nodes : Durable(m)'
    <2> SUFFICES ASSUME NEW m \in Nodes PROVE Durable(m)'
      OBVIOUS
    <2>1. Durable(m) BY <1>6 DEF Rename, Clean
    <2>2. CASE m # n
      <3>1. disk'[m] = disk[m] /\ pc'[m] = pc[m]
        BY <1>6, <2>2 DEF Rename, TypeOK
      <3> QED BY <2>1, <3>1, <1>6 DEF Durable, Rename
    <2>3. CASE m = n
      <3>1. disk'[m] = memory[m] /\ memory'[m] = memory[m] /\ late'[m] = {}
        BY <1>6, <2>3, <2>1 DEF Rename, TypeOK, Durable
      <3>2. \A t \in Tokens : acked'[m][t] <= Revision(memory[m], t)
        BY <1>6, <2>1, <1>r DEF Durable, Rename
      <3>3. \A t \in Tokens : Revision(memory[m], t) <= Revision(memory[m], t)
        BY <1>r
      <3> QED BY <3>1, <3>2, <3>3 DEF Durable
    <2> QED BY <2>2, <2>3
  <1>7. ASSUME NEW n \in Nodes, Reply(n) PROVE \A m \in Nodes : Durable(m)'
    <2>1. disk[n] = memory[n]
      BY <1>7 DEF Reply, Clean, Durable
    <2>2. (\A m \in Nodes : pc'[m] \in {pc[m], "idle"})
            /\ (\A m \in Nodes : m # n => pc'[m] = pc[m])
      BY <1>7 DEF Reply, Release, TypeOK
    <2>3. CASE subject[n] = NoToken
      BY <1>7, <2>1, <2>2, <2>3 DEF Reply, Clean, Durable
    <2>4. CASE subject[n] \in Tokens
      <3>1. subject[n] # NoToken BY <2>4, MarkerAssumption
      <3>2. Acknowledge(n, subject[n]) BY <1>7, <3>1 DEF Reply
      <3> QED BY <1>7, <2>1, <2>2, <2>4, <3>2, <1>a DEF Reply
    <2> QED BY <2>3, <2>4 DEF TypeOK
  <1>8. ASSUME NEW n \in Nodes, PersistFails(n) \/ Cancel(n) PROVE FALSE
    BY <1>8 DEF PersistFails, Cancel, TypeOK
  <1>9. ASSUME NEW n \in Nodes, NEW s \in late[n], LateRename(n, s) PROVE FALSE
    BY <1>9 DEF LateRename, Clean, Durable
  <1>10. ASSUME NEW n \in Nodes, Restart(n) PROVE \A m \in Nodes : Durable(m)'
    <2> SUFFICES ASSUME NEW m \in Nodes PROVE Durable(m)'
      OBVIOUS
    <2>1. Durable(m) BY <1>10 DEF Restart, Clean
    <2>2. CASE m # n
      <3>1. memory'[m] = memory[m] /\ pc'[m] = pc[m] /\ late'[m] = late[m]
        BY <1>10, <2>2 DEF Restart, Release, TypeOK
      <3> QED BY <2>1, <3>1, <1>10 DEF Durable, Restart
    <2>3. CASE m = n
      <3>1. memory'[m] = disk[m] /\ disk'[m] = disk[m] /\ late'[m] = {}
        BY <1>10, <2>3 DEF Restart, TypeOK
      <3>2. \A t \in Tokens : Revision(disk[m], t) <= Revision(disk[m], t)
        BY <1>r
      <3> QED BY <3>1, <3>2, <2>1, <1>10 DEF Durable, Restart
    <2> QED BY <2>2, <2>3
  <1>11. CASE UNCHANGED vars
    BY <1>11 DEF vars, Clean, Durable
  <1> QED BY <1>1, <1>2, <1>3, <1>4, <1>5, <1>6, <1>7, <1>8, <1>9, <1>10, <1>11
          DEF Next, Owner

-----------------------------------------------------------------------------
(* The inductive invariant: types, one record per mutation UUID, files that *)
(* are never behind an answer while nothing has failed, and true histories.  *)
THEOREM TokenInvariant == Spec => []TokenInv
  <1>1. Init => TokenInv
    BY InitTyped, InitStamped, InitClean, InitTold DEF TokenInv
  <1>2. TokenInv /\ [Next]_vars => TokenInv'
    BY NextTyped, NextStamped, NextClean, NextTold DEF TokenInv
  <1> QED BY <1>1, <1>2, PTL DEF Spec

(* Every variable has its type (auth.rs:82-194).                           *)
THEOREM TypeCorrect == Spec => []TypeOK
  <1>1. TokenInv => TypeOK
    BY DEF TokenInv
  <1> QED BY <1>1, TokenInvariant, PTL

(* Whatever is merged, lost or read back from a file, the history of every   *)
(* record in memory tells its status and revision (auth.rs:198-269).        *)
THEOREM HistoriesExplain == Spec => []HistoryExplainsStatus
  <1>1. TokenInv => HistoryExplainsStatus
    <2> SUFFICES ASSUME TokenInv, NEW n \in Nodes, NEW t \in Known(memory[n])
                 PROVE  Explained(memory[n][t])
      BY DEF HistoryExplainsStatus, Explained
    <2>1. memory[n][t] \in Held(t) /\ t \in Tokens
      BY CopiesHeld DEF Copies, Known
    <2> QED BY <2>1 DEF TokenInv, Told
  <1> QED BY <1>1, TokenInvariant, PTL

(* As long as no persist failed or was dropped, no restart of any node      *)
(* takes an acknowledged status back (auth.rs:198-343).                    *)
THEOREM AcknowledgedSurvives == Spec => []AcknowledgedStatusSurvivesCleanRestart
  <1>1. TokenInv => AcknowledgedStatusSurvivesCleanRestart
    <2> SUFFICES ASSUME TokenInv, faults = 0, NEW n \in Nodes, NEW t \in Tokens
                 PROVE  acked[n][t] <= Revision(memory[n], t)
      BY DEF AcknowledgedStatusSurvivesCleanRestart, AcknowledgedStatusSurvivesRestart
    <2>1. Durable(n)
      BY DEF TokenInv, Clean
    <2>2. /\ acked[n][t] \in Nat
          /\ Revision(memory[n], t) \in Nat /\ Revision(disk[n], t) \in Nat
      BY StoreTypes DEF TokenInv, TypeOK
    <2> QED BY <2>1, <2>2 DEF Durable
  <1> QED BY <1>1, TokenInvariant, PTL

(* Records of one token, no two of them with the same UUID, are the same    *)
(* whichever of two merges comes first.                                    *)
LEMMA MergesCommute ==
  ASSUME NEW a \in Stores, NEW b \in Stores, NEW c \in Stores, NEW t \in Tokens,
         NEW H, \A z \in {a, b, c} : t \in Known(z) => z[t] \in H,
         \A r, q \in H : r.mutation = q.mutation => r = q
  PROVE  Joined(Joined(a, b), c)[t] = Joined(Joined(a, c), b)[t]
  <1> DEFINE Pick(x, y) == IF y = Absent THEN x ELSE IF x = Absent THEN y
                           ELSE IF Wins(y, x) THEN y ELSE x
  <1>1. ASSUME NEW x \in Stores, NEW y \in Stores
        PROVE  Joined(x, y)[t] = Pick(x[t], y[t])
    BY DEF Joined, Adopted, Known
  <1>2. Joined(a, b) \in Stores /\ Joined(a, c) \in Stores
    BY JoinedTypes
  <1>3. /\ Joined(Joined(a, b), c)[t] = Pick(Pick(a[t], b[t]), c[t])
        /\ Joined(Joined(a, c), b)[t] = Pick(Pick(a[t], c[t]), b[t])
    BY <1>1, <1>2
  <1>4. \A z \in {a, b, c} :
          z[t] # Absent => /\ z[t] \in H
                           /\ z[t].revision \in Nat /\ z[t].mutation \in Nat
    BY StoreTypes, RecordTypes DEF Known
  <1>5. Pick(Pick(a[t], b[t]), c[t]) = Pick(Pick(a[t], c[t]), b[t])
    <2> DEFINE x == a[t]
               y == b[t]
               w == c[t]
    <2>1. /\ x # Absent => x \in H /\ x.revision \in Nat /\ x.mutation \in Nat
          /\ y # Absent => y \in H /\ y.revision \in Nat /\ y.mutation \in Nat
          /\ w # Absent => w \in H /\ w.revision \in Nat /\ w.mutation \in Nat
      BY <1>4
    <2> HIDE DEF x, y, w
    <2>2. Pick(Pick(x, y), w) = Pick(Pick(x, w), y)
      BY <2>1 DEF Wins
    <2> QED BY <2>2 DEF x, y, w
  <1> HIDE DEF Pick
  <1> QED BY <1>3, <1>5

(* Two snapshots of the fleet leave a node with the same records whichever  *)
(* comes first (auth.rs:243-269).                                          *)
THEOREM DeliveryOrderNeverMatters == Spec => []DeliveryOrderIsIrrelevant
  <1>1. TokenInv => DeliveryOrderIsIrrelevant
    <2> SUFFICES ASSUME TokenInv, NEW n \in Nodes,
                        NEW s1 \in sent \cup {memory[m] : m \in Nodes},
                        NEW s2 \in sent \cup {memory[m] : m \in Nodes}
                 PROVE  Joined(Joined(memory[n], s1), s2) = Joined(Joined(memory[n], s2), s1)
      BY DEF DeliveryOrderIsIrrelevant
    <2>1. memory[n] \in Copies /\ s1 \in Copies /\ s2 \in Copies
      BY DEF Copies
    <2>2. memory[n] \in Stores /\ s1 \in Stores /\ s2 \in Stores
      BY DEF TokenInv, TypeOK
    <2>3. ASSUME NEW t \in Tokens
          PROVE  Joined(Joined(memory[n], s1), s2)[t] = Joined(Joined(memory[n], s2), s1)[t]
      <3>1. \A z \in {memory[n], s1, s2} : t \in Known(z) => z[t] \in Held(t)
        BY <2>1, CopiesHeld
      <3>2. \A r, q \in Held(t) : r.mutation = q.mutation => r = q
        BY DEF TokenInv, Stamped
      <3> QED BY <2>2, <3>1, <3>2, MergesCommute
    <2>4. /\ Joined(Joined(memory[n], s1), s2) \in Stores
          /\ Joined(Joined(memory[n], s2), s1) \in Stores
      BY <2>2, JoinedTypes
    <2> QED BY <2>3, <2>4 DEF Stores
  <1> QED BY <1>1, TokenInvariant, PTL

(* Only a restart takes a record back: no merge, request, failure or late  *)
(* rename puts an earlier record in its place, and none changes a status     *)
(* without a higher revision (auth.rs:245-325).                            *)
THEOREM NothingRollsBack == Spec => NoStatusRollback
  <1> DEFINE Forward(old, new) ==
               /\ new = old \/ Wins(new, old)
               /\ new.enabled # old.enabled => new.revision > old.revision
             Kept == restarts' = restarts =>
                       \A n \in Nodes : \A t \in Known(memory[n]) :
                         Forward(memory[n][t], memory'[n][t])
  <1>1. TokenInv /\ [Next]_vars => Kept
    <2> SUFFICES ASSUME TokenInv, [Next]_vars, restarts' = restarts,
                        NEW n \in Nodes, NEW t \in Known(memory[n])
                 PROVE  Forward(memory[n][t], memory'[n][t])
      OBVIOUS
    <2>0. /\ t \in Tokens /\ memory[n] \in Stores /\ memory[n][t] \in Records
          /\ memory[n][t] # Absent
      BY StoreTypes DEF Known, TokenInv, TypeOK
    <2>1. CASE memory'[n][t] = memory[n][t]
      BY <2>1
    <2>2. ASSUME NEW m \in Nodes, NEW t1 \in Tokens, NEW u \in Mutations, Create(m, t1, u)
          PROVE  memory'[n][t] = memory[n][t]
      <3>1. t1 \notin Known(memory[n])
        BY <2>2 DEF Create, New
      <3> QED BY <2>0, <2>2, <3>1 DEF Create, Change, TokenInv, TypeOK, Stores
    <2>3. ASSUME NEW m \in Nodes, NEW t1 \in Tokens, NEW u \in Mutations, NEW on \in BOOLEAN,
                 SetEnabled(m, t1, on, u), memory'[n][t] # memory[n][t]
          PROVE  Forward(memory[n][t], memory'[n][t])
      <3>1. m = n /\ memory'[n] = [memory[n] EXCEPT ![t1] = Switched(memory[n][t1], on, u)]
        BY <2>0, <2>3 DEF SetEnabled, Change, TokenInv, TypeOK, Stores
      <3>2. t = t1
        BY <2>0, <2>3, <3>1 DEF Stores
      <3>3. memory'[n][t] = Switched(memory[n][t], on, u)
        BY <2>0, <3>1, <3>2 DEF Stores
      <3>4. memory'[n][t].revision = memory[n][t].revision + 1 /\ memory[n][t].revision \in Nat
        BY <2>0, <3>3, RecordTypes DEF Switched
      <3> QED BY <3>4 DEF Wins
    <2>4. ASSUME NEW m \in Nodes, NEW s \in sent, Merge(m, s), memory'[n][t] # memory[n][t]
          PROVE  Forward(memory[n][t], memory'[n][t])
      <3>1. memory'[n] = Joined(memory[n], s)
        BY <2>4 DEF Merge, Change, TokenInv, TypeOK
      <3>2. /\ t \in Known(s) /\ Wins(s[t], memory[n][t]) /\ memory'[n][t] = s[t]
        BY <2>0, <2>4, <3>1 DEF Joined, Adopted
      <3>3. memory[n] \in Copies /\ s \in Copies /\ s \in Stores
        BY DEF Copies, TokenInv, TypeOK
      <3>4. memory[n][t] \in Held(t) /\ s[t] \in Held(t)
        BY <2>0, <3>2, <3>3, CopiesHeld
      <3>5. Alternates(memory[n][t]) /\ Alternates(s[t])
        BY <2>0, <3>4 DEF TokenInv, Told
      <3>6. s[t] \in Records
        BY <2>0, <3>2, <3>3, StoreTypes
      <3>7. /\ s[t].revision \in Nat /\ memory[n][t].revision \in Nat
            /\ s[t].enabled \in BOOLEAN /\ memory[n][t].enabled \in BOOLEAN
        BY <2>0, <3>6, RecordTypes
      <3>8. s[t].revision = memory[n][t].revision => s[t].enabled = memory[n][t].enabled
        BY <3>5, <3>7 DEF Alternates
      <3>9. s[t].revision >= memory[n][t].revision
        BY <3>2, <3>7 DEF Wins
      <3>10. s[t].enabled # memory[n][t].enabled => s[t].revision > memory[n][t].revision
        BY <3>7, <3>8, <3>9
      <3> QED BY <3>2, <3>10
    <2>5. ASSUME NEW m \in Nodes, Restart(m) PROVE FALSE
      BY <2>5 DEF Restart, TokenInv, TypeOK
    <2>6. ASSUME NEW m \in Nodes, Fetch(m) \/ Rename(m) \/ Reply(m) \/ PersistFails(m) \/ Cancel(m)
          PROVE  memory' = memory
      BY <2>6 DEF Fetch, Rename, Reply, PersistFails, Cancel
    <2>7. ASSUME NEW m \in Nodes, NEW t1 \in Tokens, SetEnabledAgain(m, t1)
          PROVE  memory' = memory
      BY <2>7 DEF SetEnabledAgain
    <2>8. ASSUME NEW m \in Nodes, NEW s \in late[m], LateRename(m, s) PROVE memory' = memory
      BY <2>8 DEF LateRename
    <2>9. CASE UNCHANGED vars
      BY <2>9, <2>1 DEF vars
    <2> HIDE DEF Forward
    <2> QED BY <2>1, <2>2, <2>3, <2>4, <2>5, <2>6, <2>7, <2>8, <2>9 DEF Next, Owner
  <1>2. TokenInv /\ [Next]_vars => [Kept]_vars
    BY <1>1
  <1> QED BY <1>2, TokenInvariant, PTL DEF Spec, NoStatusRollback
=============================================================================
