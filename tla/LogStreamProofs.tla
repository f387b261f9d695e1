--------------------------- MODULE LogStreamProofs ---------------------------
(***************************************************************************)
(* For any bounds, capacities and limits, and any number of threads: a     *)
(* follower of the log is shown no event twice and told of every event it  *)
(* misses, and the history it gets is an unbroken end of the log unless    *)
(* the log rotates meanwhile or a file is longer than what is read of one. *)
(* The connections, rotations, slow clients and lagging receivers are those*)
(* of LogStream.                                                           *)
(***************************************************************************)
EXTENDS LogStream, SequenceFacts

(* All files of the log, the one that is written last.                     *)
Files == Append(archives, activeFile)

(* An event has at most one line in all of the files, and none while it is *)
(* on its way to them.                                                     *)
LinesAreInOnePlace ==
  \A m \in 1..Len(Files) :
    /\ IsInjective(Files[m]) /\ Range(Files[m]) \subseteq (1..sent) \ unwritten
    /\ \A n \in 1..Len(Files) : m # n => Range(Files[m]) \cap Range(Files[n]) = {}

(* What is empty or fixed at each stage of a connection.                   *)
Stages ==
  /\ viewer # "reading" => stream = "none"
  /\ ~follow => stream \notin {"subscribing", "history", "live", "ended"}
  /\ stream \notin {"history", "live", "ended"} => wire = <<>>
  /\ stream \notin {"archives", "history"} => history = <<>>
  /\ stream \notin {"active", "archives"} => paths = <<>>
  /\ lines = 0 => stream # "active" /\ history = <<>>
  /\ stream = "history" \/ (follow /\ stream \in {"listing", "active", "archives"})
       => position = subscribed

(* A follower that has displayed something asks for no history, and what it*)
(* has displayed is older than its subscription.                           *)
ShownBefore ==
  /\ shown \subseteq 1..sent /\ (viewer # "done" => clientSeen \subseteq shown)
  /\ \/ lines = 0 \/ viewer = "done" \/ shown = {}
     \/ stream \in {"history", "live", "ended"}
  /\ follow /\ stream \in {"listing", "active", "archives"} => shown \subseteq 1..position

(* The files still to read, newest first.                                  *)
PathsDescend ==
  /\ \A i \in DOMAIN paths : paths[i] \in 1..Len(archives) /\ paths[i] = paths[1] + 1 - i
  /\ stream = "active" /\ ~rotated => paths = Listed

(* What was read is in none of the files still to read, and of what is     *)
(* left to send nothing is displayed or on its way.                        *)
HistoryIsNew ==
  /\ IsInjective(history) /\ Range(history) \subseteq 1..sent
  /\ \A n \in Range(paths) : Range(history) \cap Range(archives[n]) = {}
  /\ stream = "history" =>
       Range(history) \cap (shown \cup Range(wire)) = {} /\ Range(history) \subseteq serverSeen

(* Of the entries of a connection, an event is there once; notices may repeat.*)
OnceEach(s) == \A i, j \in DOMAIN s : s[i] = s[j] /\ s[i] > 0 => i = j

(* No event is sent twice on a connection, nor one that was displayed.     *)
SentOnce ==
  /\ \A i \in DOMAIN wire : wire[i] < 0 \/ wire[i] \in 1..sent
  /\ OnceEach(wire)
  /\ shown \cap Range(wire) = {}
  /\ stream \in {"history", "live"} =>
       \A e \in shown \cup Range(wire) : e <= position \/ e \in serverSeen

(* What the server has counted as sent is displayed or on its way.         *)
SeenIsSent ==
  stream \in {"history", "live", "ended"} =>
    serverSeen \subseteq shown \cup Range(wire) \cup Range(history)

(* What is left to read comes right before what was read.                  *)
StillToRead == [n \in 1..Head(paths) |-> IF n \in Range(paths) THEN archives[n] ELSE <<>>]

(* As long as no listed file rotated away and no file was cut, what is on  *)
(* disk is what is still to read and then what was read.                   *)
NothingLeftOut ==
  stream = "archives" /\ ~rotated /\ ~cut /\ paths # <<>> /\ Exists(Head(paths))
      /\ Len(history) < Limit
    => onDisk = FlattenSeq(StillToRead) \o history

(* The inductive invariant.                                                *)
LogInv ==
  /\ LogTypeOK /\ LinesAreInOnePlace /\ Stages /\ ShownBefore /\ PathsDescend
  /\ HistoryIsNew /\ SentOnce /\ NoEventTwice /\ SeenIsSent /\ SkipsAreAnnounced
  /\ HistoryHasNoHole /\ NothingLeftOut
-----------------------------------------------------------------------------
(* The newest lines of a file.                                             *)

(* Newest(s, n) is the end of s, all of it if that is less than n lines.   *)
LEMMA NewestOf ==
  ASSUME NEW T, NEW s \in Seq(T), NEW n \in Nat
  PROVE  /\ Newest(s, n) \in Seq(T) /\ Len(Newest(s, n)) = Least(n, Len(s))
         /\ Len(Newest(s, n)) \in Nat /\ Len(Newest(s, n)) <= Len(s)
         /\ Len(Newest(s, n)) < n => Newest(s, n) = s
         /\ \A i \in 1..Len(Newest(s, n)) :
              /\ i + (Len(s) - Len(Newest(s, n))) \in 1..Len(s)
              /\ Newest(s, n)[i] = s[i + (Len(s) - Len(Newest(s, n)))]
         /\ Range(Newest(s, n)) \subseteq Range(s)
         /\ IsInjective(s) => IsInjective(Newest(s, n))
  <1> DEFINE k == Least(n, Len(s))
             a == Len(s) - k + 1
             t == Newest(s, n)
  <1>1. k \in Nat /\ k <= Len(s) /\ Len(s) \in Nat /\ (k < n => k = Len(s))
    BY DEF Least
  <1>2. t = SubSeq(s, a, Len(s))
    BY DEF Newest
  <1> HIDE DEF k
  <1>3. a \in 1..(Len(s) + 1) /\ Len(s) \in (a - 1)..Len(s) /\ Len(s) - a + 1 = k
    BY <1>1
  <1>4. /\ t \in Seq(T) /\ Len(t) = k
        /\ \A i \in 1..k : a + i - 1 \in 1..Len(s) /\ t[i] = s[a + i - 1]
    <2> HIDE DEF t, a
    <2>1. \A i \in 1..k : a + i - 1 \in 1..Len(s)
      BY <1>1 DEF a
    <2>2. t \in Seq(T)
      <3>1. \A i \in a..Len(s) : s[i] \in T
        BY <1>1, <1>3
      <3> QED BY <1>1, <1>2, <1>3, <3>1
    <2>3. Len(t) = k /\ \A i \in 1..k : t[i] = s[a + i - 1]
      BY <1>1, <1>2, <1>3
    <2> QED BY <2>1, <2>2, <2>3
  <1>5. k < n => t = s
    <2> HIDE DEF t
    <2>1. ASSUME k < n PROVE t = s
      <3>1. k = Len(s) /\ a = 1
        BY <1>1, <2>1
      <3>2. \A i \in 1..k : t[i] = s[i]
        BY <1>1, <1>4, <3>1
      <3> QED BY <1>1, <1>4, <3>1, <3>2, SeqEqual
    <2> QED BY <2>1
  <1>6. \A i \in 1..k : i + (Len(s) - k) = a + i - 1
    BY <1>1
  <1> HIDE DEF t, a
  <1>7. \A i \in 1..k : i + (Len(s) - k) \in 1..Len(s) /\ t[i] = s[i + (Len(s) - k)]
    BY <1>4, <1>6
  <1>8. DOMAIN t = 1..k /\ DOMAIN s = 1..Len(s)
    BY <1>4
  <1>9. Range(t) \subseteq Range(s)
    BY <1>7, <1>8 DEF Range
  <1>10. ASSUME IsInjective(s), NEW i \in 1..k, NEW j \in 1..k, t[i] = t[j] PROVE i = j
    <2>1. i + (Len(s) - k) = j + (Len(s) - k)
      BY <1>7, <1>8, <1>10 DEF IsInjective
    <2> QED BY <1>1, <2>1
  <1>11. IsInjective(s) => IsInjective(t)
    BY <1>8, <1>10 DEF IsInjective
  <1>12. t = Newest(s, n) /\ k = Least(n, Len(s))
    BY DEF t, k
  <1> QED BY <1>1, <1>4, <1>5, <1>7, <1>9, <1>11, <1>12

(* Newest lines of a file before what was read is an end of all of it.     *)
LEMMA NewestIsSuffix ==
  ASSUME NEW T, NEW p \in Seq(T), NEW s \in Seq(T), NEW h \in Seq(T), NEW n \in Nat
  PROVE  IsSuffix(Newest(s, n) \o h, (p \o s) \o h)
  <1> DEFINE r == Newest(s, n)
             u == r \o h
             w == p \o s
             v == w \o h
             k == Len(r)
  <1>1. /\ r \in Seq(T) /\ k \in Nat /\ k <= Len(s)
        /\ \A i \in 1..k : i + (Len(s) - k) \in 1..Len(s) /\ r[i] = s[i + (Len(s) - k)]
    BY NewestOf
  <1> HIDE DEF r
  <1>2. /\ Len(s) \in Nat /\ Len(h) \in Nat /\ Len(p) \in Nat
        /\ u \in Seq(T) /\ Len(u) = k + Len(h)
        /\ w \in Seq(T) /\ Len(w) = Len(p) + Len(s)
    BY <1>1
  <1>3. \A i \in 1..Len(u) : u[i] = IF i <= k THEN r[i] ELSE h[i - k]
    BY <1>1
  <1>4. \A i \in 1..Len(w) : w[i] = IF i <= Len(p) THEN p[i] ELSE s[i - Len(p)]
    OBVIOUS
  <1> HIDE DEF u, w
  <1>5. v \in Seq(T) /\ Len(v) = Len(p) + Len(s) + Len(h)
    <2>1. v \in Seq(T) /\ Len(v) = Len(w) + Len(h)
      BY <1>2, ConcatProperties
    <2> QED BY <1>2, <2>1
  <1>6. \A i \in 1..Len(v) : v[i] = IF i <= Len(w) THEN w[i] ELSE h[i - Len(w)]
    BY <1>2
  <1> HIDE DEF v, k
  <1>7. Len(u) <= Len(v) /\ Len(v) - Len(u) = Len(p) + Len(s) - k
    BY <1>1, <1>2, <1>5
  <1>8. ASSUME NEW i \in 1..Len(u) PROVE u[i] = v[i + (Len(v) - Len(u))]
    <2> DEFINE j == i + (Len(v) - Len(u))
    <2>1. j \in 1..Len(v) /\ j = i + (Len(p) + Len(s) - k)
      BY <1>1, <1>2, <1>5, <1>7
    <2> HIDE DEF j
    <2>2. CASE i <= k
      <3>1. i \in 1..k /\ u[i] = r[i]
        BY <1>1, <1>3, <2>2
      <3>2. /\ r[i] = s[i + (Len(s) - k)] /\ i + (Len(s) - k) >= 1
        BY <1>1, <3>1
      <3>3. j <= Len(w) /\ ~(j <= Len(p)) /\ j - Len(p) = i + (Len(s) - k) /\ j \in 1..Len(w)
        BY <1>1, <1>2, <2>1, <3>1, <3>2
      <3>4. v[j] = w[j]
        BY <1>6, <2>1, <3>3
      <3>5. w[j] = s[j - Len(p)]
        BY <1>4, <3>3
      <3> QED BY <3>1, <3>2, <3>3, <3>4, <3>5 DEF j
    <2>3. CASE ~(i <= k)
      <3>1. u[i] = h[i - k]
        BY <1>3, <2>3
      <3>2. ~(j <= Len(w)) /\ j - Len(w) = i - k
        BY <1>1, <1>2, <2>1, <2>3
      <3>3. v[j] = h[j - Len(w)]
        BY <1>6, <2>1, <3>2
      <3> QED BY <3>1, <3>2, <3>3 DEF j
    <2> QED BY <2>2, <2>3
  <1>9. IsSuffix(u, v)
    BY <1>2, <1>5, <1>7, <1>8, EndsAlike
  <1> QED BY <1>9 DEF r, u, v, w
-----------------------------------------------------------------------------
(* Types.                                                                  *)

(* The counters are numbers.                                               *)
LEMMA LogNumbers ==
  ASSUME LogTypeOK
  PROVE  /\ MaxEvents \in Nat /\ MaxArchives \in Nat /\ Lines \in Nat /\ SeenLimit \in Nat
         /\ MaxConnections \in Nat /\ ChannelCapacity \in Nat /\ ChannelCapacity > 0
         /\ sent \in Nat /\ sent <= MaxEvents /\ position \in Nat /\ position <= sent
         /\ subscribed \in Nat /\ subscribed <= sent /\ lines \in Nat /\ skipped \in Nat
         /\ connections \in Nat /\ connections <= MaxConnections /\ Len(archives) \in Nat
         /\ 1..sent \subseteq Events
  <1>1. /\ MaxEvents \in Nat /\ MaxArchives \in Nat /\ Lines \in Nat /\ SeenLimit \in Nat
        /\ MaxConnections \in Nat /\ ChannelCapacity \in Nat /\ ChannelCapacity > 0
    BY LogAssumption
  <1>2. sent \in Nat /\ sent <= MaxEvents /\ lines \in Nat /\ skipped \in Nat
    BY <1>1 DEF LogTypeOK
  <1>3. position \in 0..sent /\ subscribed \in 0..sent /\ connections \in 0..MaxConnections
    BY DEF LogTypeOK
  <1>4. Len(archives) \in Nat
    BY DEF LogTypeOK
  <1>5. 1..sent \subseteq Events
    BY <1>1, <1>2 DEF Events
  <1> QED BY <1>1, <1>2, <1>3, <1>4, <1>5

(* There are finitely many events.                                         *)
LEMMA EventsAreFinite ==
  ASSUME LogTypeOK
  PROVE  IsFiniteSet(Events) /\ \A S \in SUBSET Events : IsFiniteSet(S)
  <1>1. MaxEvents \in Int
    BY LogNumbers
  <1>2. IsFiniteSet(Events)
    BY <1>1, FS_Interval DEF Events
  <1> QED BY <1>2, FS_Subset

(* The lines of a rotated file.                                            *)
LEMMA FileLinesType ==
  ASSUME LogTypeOK, NEW n \in 1..Len(archives)
  PROVE  archives[n] \in Seq(Events) /\ FileLines(n) \in Seq(Events)
  BY DEF LogTypeOK, FileLines

(* The lines on disk.                                                      *)
LEMMA DiskType ==
  ASSUME LogTypeOK
  PROVE  Disk \in Seq(Events)
  <1> DEFINE s == [n \in 1..Len(archives) |-> FileLines(n)]
  <1>1. s \in [1..Len(archives) -> Seq(Events)] /\ Len(archives) \in Nat
    BY FileLinesType, LogNumbers
  <1> HIDE DEF s
  <1>2. FlattenSeq(s) \in Seq(Events)
    BY <1>1, FlattenedType
  <1>3. activeFile \in Seq(Events)
    BY DEF LogTypeOK
  <1>4. FlattenSeq(s) \o activeFile \in Seq(Events)
    BY <1>2, <1>3, ConcatProperties
  <1> QED BY <1>4 DEF Disk, s

(* rotated_paths gives numbers of files, the newest first.                 *)
LEMMA ListedType ==
  ASSUME LogTypeOK
  PROVE  /\ Listed \in Seq(Nat) /\ Kept \in Nat /\ Kept <= Len(archives) /\ Kept <= MaxArchives
         /\ Len(Listed) = Kept
         /\ \A i \in 1..Kept : Listed[i] = Len(archives) + 1 - i /\ Listed[i] \in 1..Len(archives)
  <1>1. /\ Kept \in Nat /\ Kept <= Len(archives) /\ Kept <= MaxArchives /\ Len(archives) \in Nat
    BY LogNumbers DEF Kept, Least
  <1>2. \A i \in 1..Kept : Len(archives) + 1 - i \in 1..Len(archives)
    BY <1>1
  <1>3. Listed \in [1..Kept -> Nat]
    BY <1>1, <1>2 DEF Listed
  <1>4. Listed \in Seq(Nat)
    BY <1>1, <1>3, SeqDef
  <1>5. Len(Listed) = Kept
    BY <1>1, <1>3, <1>4, LenProperties
  <1> QED BY <1>1, <1>2, <1>4, <1>5 DEF Listed

(* A file gives its newest lines, and unless it is cut all that were asked *)
(* for.                                                                    *)
LEMMA ReadingOf ==
  ASSUME LogTypeOK, NEW f \in Seq(Events), NEW n \in Nat, ReadLines(f, n)
  PROVE  /\ cut' \in BOOLEAN
         /\ \E k \in Nat : /\ history' = Newest(f, k) \o history
                           /\ ~cut' => ~cut /\ Newest(f, k) = Newest(f, n)
  <1>1. PICK seen \in Least(Window, Len(f))..Len(f) :
          /\ history' = Newest(f, Least(n, seen)) \o history
          /\ cut' = (cut \/ (seen < n /\ seen < Len(f)))
    BY DEF ReadLines
  <1>2. Len(f) \in Nat /\ Least(Window, Len(f)) \in Nat
    BY LogAssumption DEF Least
  <1>3. seen \in Nat /\ seen <= Len(f)
    BY <1>2
  <1>4. Least(n, seen) \in Nat
    BY <1>3 DEF Least
  <1>5. cut \in BOOLEAN
    BY DEF LogTypeOK
  <1>6. ASSUME seen >= n \/ seen = Len(f)
        PROVE  Newest(f, Least(n, seen)) = Newest(f, n)
    <2>1. Least(Least(n, seen), Len(f)) = Least(n, Len(f))
      BY <1>2, <1>3, <1>6 DEF Least
    <2> QED BY <2>1 DEF Newest
  <1>7. ~cut' => ~cut /\ (seen >= n \/ seen = Len(f))
    <2>1. ASSUME ~cut' PROVE ~cut /\ ~(seen < n /\ seen < Len(f))
      BY <1>1, <1>5, <2>1
    <2>2. ~(seen < n /\ seen < Len(f)) => seen >= n \/ seen = Len(f)
      BY <1>2, <1>3
    <2> QED BY <2>1, <2>2
  <1>8. ~cut' => ~cut /\ Newest(f, Least(n, seen)) = Newest(f, n)
    BY <1>6, <1>7
  <1> QED BY <1>1, <1>4, <1>5, <1>8

(* What the active file gives.                                             *)
LEMMA ActiveRead ==
  ASSUME LogTypeOK, Stages, ReadActive
  PROVE  /\ cut' \in BOOLEAN
         /\ \E k \in Nat : /\ history' = Newest(activeFile, k)
                           /\ ~cut' => ~cut /\ history' = Newest(activeFile, Limit)
  <1>1. activeFile \in Seq(Events) /\ Limit \in Nat /\ history = <<>>
    BY LogNumbers DEF LogTypeOK, Limit, Stages, ReadActive
  <1>2. ReadLines(activeFile, Limit)
    BY DEF ReadActive
  <1>3. cut' \in BOOLEAN
    BY <1>1, <1>2, ReadingOf
  <1>4. PICK k \in Nat : /\ history' = Newest(activeFile, k) \o history
                         /\ ~cut' => ~cut /\ Newest(activeFile, k) = Newest(activeFile, Limit)
    BY <1>1, <1>2, ReadingOf
  <1>5. Newest(activeFile, k) \in Seq(Events)
    BY <1>1, NewestOf
  <1>6. history' = Newest(activeFile, k)
    BY <1>1, <1>4, <1>5, ConcatEmptySeq
  <1> QED BY <1>3, <1>4, <1>6

(* What the next rotated file gives.                                       *)
LEMMA ArchiveRead ==
  ASSUME LogTypeOK, PathsDescend, ReadArchive
  PROVE  /\ FileLines(Head(paths)) \in Seq(Events) /\ Limit - Len(history) \in Nat
         /\ cut' \in BOOLEAN
         /\ \E k \in Nat :
              /\ history' = Newest(FileLines(Head(paths)), k) \o history
              /\ ~cut' => /\ ~cut
                          /\ history' =
                               Newest(FileLines(Head(paths)), Limit - Len(history)) \o history
  <1> DEFINE f == FileLines(Head(paths))
             n == Limit - Len(history)
  <1>1. f \in Seq(Events)
    <2>1. paths \in Seq(Nat) /\ paths # <<>>
      BY DEF ReadArchive, LogTypeOK
    <2>2. 1 \in DOMAIN paths /\ Head(paths) = paths[1]
      BY <2>1
    <2>3. Head(paths) \in 1..Len(archives)
      BY <2>2 DEF PathsDescend
    <2> QED BY <2>3, FileLinesType
  <1>2. n \in Nat
    <2>1. Limit \in Nat /\ Len(history) \in Nat /\ Len(history) < Limit
      BY LogNumbers DEF Limit, ReadArchive, LogTypeOK
    <2> QED BY <2>1
  <1>3. ReadLines(f, n)
    BY DEF ReadArchive
  <1> HIDE DEF f, n
  <1>4. cut' \in BOOLEAN
    BY <1>1, <1>2, <1>3, ReadingOf
  <1>5. PICK k \in Nat : /\ history' = Newest(f, k) \o history
                         /\ ~cut' => ~cut /\ Newest(f, k) = Newest(f, n)
    BY <1>1, <1>2, <1>3, ReadingOf
  <1> QED BY <1>1, <1>2, <1>4, <1>5 DEF f, n

(* Every step keeps the types.                                             *)
LEMMA LogTypeKept ==
  ASSUME LogInv, [LogNext]_logVars
  PROVE  LogTypeOK'
  <1> USE DEF LogInv
  <1>n. /\ MaxEvents \in Nat /\ sent \in Nat /\ sent <= MaxEvents /\ position \in Nat
        /\ position <= sent /\ 1..sent \subseteq Events
    BY LogNumbers
  <1>1. CASE Broadcast
    <2>1. sent' \in 0..MaxEvents /\ unwritten' \subseteq 1..sent' /\ position \in 0..sent' /\ subscribed \in 0..sent'
      BY <1>n, <1>1, LogNumbers DEF Broadcast, LogTypeOK
    <2> QED BY <1>1, <2>1 DEF Broadcast, LogTypeOK, serverVars, viewerVars, noteVars
  <1>2. CASE \E e \in Events : WriteLine(e)
    <2>1. PICK e \in Events : WriteLine(e)
      BY <1>2
    <2>2. activeFile \in Seq(Events) /\ archives \in Seq(Seq(Events)) /\ unwritten \subseteq 1..sent
      BY DEF LogTypeOK
    <2>3. activeFile' \in Seq(Events) /\ archives' \in Seq(Seq(Events)) /\ rotated' \in BOOLEAN
      <3>e. rotated \in BOOLEAN /\ e \in Events
        BY <2>1 DEF LogTypeOK
      <3>1. CASE Len(activeFile) >= FileSize
        <4>1. /\ archives' = Append(archives, activeFile) /\ activeFile' = <<e>>
              /\ rotated' = (rotated \/ stream = "active")
          BY <2>1, <3>1 DEF WriteLine
        <4>2. Append(archives, activeFile) \in Seq(Seq(Events)) /\ <<e>> \in Seq(Events)
          BY <2>2, <3>e, AppendProperties
        <4> QED BY <3>e, <4>1, <4>2
      <3>2. CASE ~(Len(activeFile) >= FileSize)
        <4>1. activeFile' = Append(activeFile, e) /\ archives' = archives /\ rotated' = rotated
          BY <2>1, <3>2 DEF WriteLine
        <4> QED BY <2>2, <3>e, <4>1, AppendProperties
      <3> QED BY <3>1, <3>2
    <2> QED BY <2>1, <2>2, <2>3 DEF WriteLine, LogTypeOK, serverVars, viewerVars
  <1>3. CASE Subscribe
    BY <1>n, <1>3 DEF Subscribe, LogTypeOK, fileVars, viewerVars
  <1>4. CASE ListPaths
    <2>1. paths' \in Seq(Nat)
      BY <1>4, ListedType DEF ListPaths
    <2> QED BY <1>4, <2>1 DEF ListPaths, LogTypeOK, fileVars, viewerVars
  <1>5. CASE ReadActive
    <2>1. history' \in Seq(Events) /\ cut' \in BOOLEAN
      <3>1. activeFile \in Seq(Events)
        BY DEF LogTypeOK
      <3> QED BY <1>5, <3>1, ActiveRead, NewestOf
    <2>2. onDisk' \in Seq(Events)
      BY <1>5, DiskType DEF ReadActive
    <2> QED BY <1>5, <2>1, <2>2 DEF ReadActive, LogTypeOK, fileVars, viewerVars
  <1>6. CASE ReadArchive
    <2>1. paths \in Seq(Nat) /\ paths # <<>> /\ history \in Seq(Events) /\ Len(history) \in Nat
      BY <1>6 DEF ReadArchive, LogTypeOK
    <2>2. Tail(paths) \in Seq(Nat)
      BY <2>1
    <2>3. history' \in Seq(Events) /\ cut' \in BOOLEAN
      <3>1. FileLines(Head(paths)) \in Seq(Events) /\ cut' \in BOOLEAN
        BY <1>6, ArchiveRead
      <3>2. PICK k \in Nat : history' = Newest(FileLines(Head(paths)), k) \o history
        BY <1>6, ArchiveRead
      <3>3. Newest(FileLines(Head(paths)), k) \in Seq(Events)
        BY <3>1, NewestOf
      <3> QED BY <2>1, <3>1, <3>2, <3>3, ConcatProperties
    <2> QED BY <1>6, <2>2, <2>3 DEF ReadArchive, LogTypeOK, fileVars, viewerVars
  <1>7. CASE HistoryRead
    <2>1. Range(history) \subseteq Events
      BY RangeInSet DEF LogTypeOK
    <2>2. CASE follow
      BY <1>7, <2>1, <2>2 DEF HistoryRead, LogTypeOK, fileVars, noteVars
    <2>3. CASE ~follow
      <3>1. repeated \subseteq Range(history)
        BY DEF NoEventTwice
      <3> QED BY <1>7, <2>1, <2>3, <3>1 DEF HistoryRead, LogTypeOK, fileVars, noteVars
    <2> QED BY <2>2, <2>3
  <1>8. CASE SendHistory
    <2>1. history \in Seq(Events) /\ history # <<>> /\ wire \in Seq((-MaxEvents)..MaxEvents)
      BY <1>8 DEF SendHistory, LogTypeOK
    <2>2. Head(history) \in Events /\ Tail(history) \in Seq(Events)
      BY <2>1
    <2>3. Head(history) \in (-MaxEvents)..MaxEvents
      BY <1>n, <2>2 DEF Events
    <2>4. Append(wire, Head(history)) \in Seq((-MaxEvents)..MaxEvents)
      BY <2>1, <2>3, AppendProperties
    <2> QED BY <1>8, <2>2, <2>4 DEF SendHistory, LogTypeOK, fileVars, viewerVars, noteVars
  <1>9. CASE GoLive
    BY <1>9 DEF GoLive, LiveFrom, LogTypeOK, fileVars, viewerVars, noteVars
  <1>10. CASE Receive
    <2>1. position + 1 \in 1..sent /\ position + 1 \in Events /\ position + 1 \in 0..sent
      BY <1>n, <1>10 DEF Receive, Events
    <2>2. position + 1 \in (-MaxEvents)..MaxEvents
      BY <1>n, <2>1 DEF Events
    <2>3. wire \in Seq((-MaxEvents)..MaxEvents)
      BY DEF LogTypeOK
    <2>4. wire' \in Seq((-MaxEvents)..MaxEvents)
      BY <1>10, <2>2, <2>3, AppendProperties DEF Receive
    <2> QED BY <1>10, <2>1, <2>4 DEF Receive, LogTypeOK, fileVars, viewerVars, noteVars
  <1>11. CASE Lag
    <2>1. position + Lost \in 0..sent /\ -Lost \in (-MaxEvents)..MaxEvents
      <3> DEFINE x == Lost
      <3>1. ChannelCapacity \in Nat
        BY LogNumbers
      <3>2. x = sent - position - ChannelCapacity /\ x > 0
        BY <1>11 DEF Lag, Lost
      <3> HIDE DEF x
      <3>3. x \in 1..sent /\ position + x \in 0..sent
        BY <1>n, <3>1, <3>2
      <3>4. -x \in (-MaxEvents)..MaxEvents
        BY <1>n, <3>3
      <3> QED BY <3>3, <3>4 DEF x
    <2>2. wire' \in Seq((-MaxEvents)..MaxEvents)
      <3> DEFINE W == (-MaxEvents)..MaxEvents
                 x == -Lost
      <3>1. wire \in Seq(W) /\ x \in W /\ wire' = Append(wire, x)
        BY <1>11, <2>1 DEF Lag, LogTypeOK
      <3> HIDE DEF W, x
      <3>2. wire' \in Seq(W)
        BY <3>1, AppendProperties
      <3> QED BY <3>2 DEF W
    <2> QED BY <1>11, <2>1, <2>2 DEF Lag, LogTypeOK, fileVars, viewerVars, noteVars
  <1>12. CASE EndOfStream
    BY <1>12 DEF EndOfStream, LogTypeOK, fileVars, viewerVars, noteVars
  <1>13. CASE Connect
    <2>1. connections \in Nat /\ MaxConnections \in Nat /\ connections < MaxConnections
      BY <1>13, LogNumbers DEF Connect
    <2>2. connections' \in 0..MaxConnections
      BY <1>13, <2>1 DEF Connect
    <2> QED BY <1>13, <2>2 DEF Connect, LogTypeOK, fileVars, noteVars
  <1>14. CASE Reject
    BY <1>14 DEF Reject, LogTypeOK, fileVars, serverVars, noteVars
  <1>15. CASE Display
    <2>1. wire \in Seq((-MaxEvents)..MaxEvents) /\ wire # <<>> /\ 1 \in DOMAIN wire /\ Head(wire) = wire[1]
          /\ Head(wire) \in Int
      <3>1. wire \in Seq((-MaxEvents)..MaxEvents) /\ wire # <<>>
        BY <1>15 DEF Display, LogTypeOK
      <3> DEFINE W == (-MaxEvents)..MaxEvents
      <3>2. W \subseteq Int
        BY <1>n
      <3> HIDE DEF W
      <3>3. wire \in Seq(W)
        BY <3>1 DEF W
      <3>4. 1 \in DOMAIN wire /\ Head(wire) = wire[1] /\ wire[1] \in W
        BY <3>1, <3>3
      <3> QED BY <3>1, <3>2, <3>4
    <2>2. Tail(wire) \in Seq((-MaxEvents)..MaxEvents)
      BY <2>1
    <2>3. CASE Head(wire) < 0
      <3>1. skipped' \in Nat
        <4> DEFINE x == Head(wire)
        <4>1. skipped \in Nat
          BY LogNumbers
        <4>2. x \in Int /\ x < 0 /\ skipped' = skipped - x
          BY <1>15, <2>1, <2>3 DEF Display
        <4> HIDE DEF x
        <4> QED BY <4>1, <4>2
      <3> QED BY <1>15, <2>2, <2>3, <3>1 DEF Display, LogTypeOK, fileVars, serverVars
    <2>4. CASE ~(Head(wire) < 0)
      <3>1. Head(wire) \in Events
        BY <1>n, <2>1, <2>4 DEF SentOnce
      <3>2. clientSeen' \subseteq Events /\ Cardinality(clientSeen') <= SeenLimit
        <4>1. Cardinality({}) = 0 /\ 0 <= SeenLimit
          BY FS_EmptySet, LogNumbers
        <4> DEFINE all == clientSeen \cup {Head(wire)}
        <4>2. all \subseteq Events /\ clientSeen' = IF Cardinality(all) > SeenLimit THEN {} ELSE all
          BY <1>15, <2>4, <3>1 DEF Display, Remember, LogTypeOK
        <4>3. Cardinality(all) \in Nat
          BY <4>2, EventsAreFinite, FS_CardinalityType
        <4> HIDE DEF all
        <4> QED BY <4>1, <4>2, <4>3, LogNumbers
      <3>3. shown' \subseteq Events /\ repeated' \subseteq shown' /\ skipped' = skipped
        BY <1>15, <2>4, <3>1 DEF Display, LogTypeOK
      <3> QED BY <1>15, <2>2, <3>2, <3>3 DEF Display, LogTypeOK, fileVars, serverVars
    <2> QED BY <2>3, <2>4
  <1>16. CASE Disconnect
    <2>1. sent' = sent /\ position' = 0 /\ subscribed' = 0 /\ 0 \in 0..sent
      BY <1>n, <1>16 DEF Disconnect, fileVars
    <2>2. lines' \in {0, Lines} /\ viewer' \in {"connecting", "failed"}
      BY <1>16 DEF Disconnect, LinesAfter, LogTypeOK
    <2>3. /\ paths' \in Seq(Nat) /\ history' \in Seq(Events) /\ onDisk' \in Seq(Events)
          /\ wire' \in Seq((-MaxEvents)..MaxEvents) /\ stream' = "none"
      <3>1. paths' = <<>> /\ history' = <<>> /\ onDisk' = <<>> /\ wire' = <<>> /\ stream' = "none"
        BY <1>16 DEF Disconnect
      <3> QED BY <3>1, EmptySeq
    <2>4. serverSeen' = {} /\ skipped' = 0 /\ rotated' = FALSE /\ cut' = FALSE
          /\ UNCHANGED <<fileVars, follow, clientSeen, connections, shown, repeated>>
      BY <1>16 DEF Disconnect
    <2> QED BY <2>1, <2>2, <2>3, <2>4 DEF LogTypeOK, fileVars
  <1>17. CASE UNCHANGED logVars
    BY <1>17 DEF logVars, fileVars, serverVars, viewerVars, noteVars, LogTypeOK
  <1>18. CASE ReadFails
    <2>1. paths' \in Seq(Nat) /\ history' \in Seq(Events)
      BY <1>18, EmptySeq DEF ReadFails
    <2> QED BY <1>18, <2>1 DEF ReadFails, LogTypeOK, fileVars, viewerVars, noteVars
  <1> QED BY <1>1, <1>2, <1>3, <1>4, <1>5, <1>6, <1>7, <1>8, <1>9, <1>10, <1>11, <1>12, <1>13,
             <1>14, <1>15, <1>16, <1>17, <1>18 DEF LogNext, StreamProgress
-----------------------------------------------------------------------------
(* The lines in the files and on the connection.                           *)

(* A notice, or an event that is not there yet, is added.                  *)
LEMMA OnceEachAppend ==
  ASSUME NEW s \in Seq(Int), NEW x \in Int, OnceEach(s), x < 0 \/ x \notin Range(s)
  PROVE  OnceEach(Append(s, x))
  <1> DEFINE t == Append(s, x)
  <1>1. /\ t \in Seq(Int) /\ Len(s) \in Nat /\ t[Len(s) + 1] = x
        /\ \A i \in 1..Len(s) : t[i] = s[i] /\ s[i] \in Range(s)
        /\ DOMAIN t = 1..(Len(s) + 1) /\ DOMAIN s = 1..Len(s)
    BY DEF Range
  <1> HIDE DEF t
  <1>2. SUFFICES ASSUME NEW i \in DOMAIN t, NEW j \in DOMAIN t, t[i] = t[j], t[i] > 0 PROVE i = j
    BY DEF OnceEach, t
  <1>3. (i \in 1..Len(s) \/ i = Len(s) + 1) /\ (j \in 1..Len(s) \/ j = Len(s) + 1)
    BY <1>1
  <1>4. CASE i \in 1..Len(s) /\ j \in 1..Len(s)
    BY <1>1, <1>2, <1>4 DEF OnceEach
  <1>5. CASE i \in 1..Len(s) /\ j = Len(s) + 1
    BY <1>1, <1>2, <1>5
  <1>6. CASE i = Len(s) + 1 /\ j \in 1..Len(s)
    BY <1>1, <1>2, <1>6
  <1> QED BY <1>3, <1>4, <1>5, <1>6

(* The first entry is taken.                                               *)
LEMMA OnceEachTail ==
  ASSUME NEW s \in Seq(Int), OnceEach(s), s # <<>>
  PROVE  OnceEach(Tail(s)) /\ (Head(s) > 0 => Head(s) \notin Range(Tail(s)))
  <1> DEFINE t == Tail(s)
  <1>1. /\ t \in Seq(Int) /\ Len(t) \in Nat /\ Len(s) = Len(t) + 1 /\ Head(s) = s[1] /\ s[1] \in Int
        /\ DOMAIN s = 1..Len(s) /\ DOMAIN t = 1..Len(t)
        /\ \A i \in 1..Len(t) : t[i] = s[i + 1]
    OBVIOUS
  <1> HIDE DEF t
  <1>2. 1 \in 1..Len(s) /\ \A i \in 1..Len(t) : i + 1 \in 1..Len(s) /\ i + 1 # 1
    BY <1>1
  <1>3. ASSUME NEW i \in 1..Len(t), NEW j \in 1..Len(t), t[i] = t[j], t[i] > 0 PROVE i = j
    <2>1. i + 1 = j + 1
      BY <1>1, <1>2, <1>3 DEF OnceEach
    <2> QED BY <1>1, <2>1
  <1>4. ASSUME s[1] > 0, NEW i \in 1..Len(t), t[i] = s[1] PROVE FALSE
    BY <1>1, <1>2, <1>4 DEF OnceEach
  <1>5. OnceEach(t)
    BY <1>1, <1>3 DEF OnceEach
  <1>6. s[1] > 0 => s[1] \notin Range(t)
    BY <1>1, <1>4 DEF Range
  <1> QED BY <1>1, <1>5, <1>6 DEF t

(* What is on the connection, as integers.                                 *)
LEMMA OnTheWire ==
  ASSUME LogTypeOK
  PROVE  /\ wire \in Seq(Int) /\ Range(wire) \subseteq Int
         /\ \A x \in Range(wire) : \E i \in DOMAIN wire : wire[i] = x
         /\ \A i \in DOMAIN wire : wire[i] \in Range(wire)
  <1> DEFINE W == (-MaxEvents)..MaxEvents
  <1>1. W \subseteq Int
    BY LogNumbers
  <1>2. wire \in Seq(W)
    BY DEF LogTypeOK
  <1> HIDE DEF W
  <1>3. wire \in Seq(Int)
    BY <1>1, <1>2, SeqMonotonic
  <1> QED BY <1>3 DEF Range

(* The files, as one list.                                                 *)
LEMMA FilesAsList ==
  ASSUME archives \in Seq(Seq(Events)), activeFile \in Seq(Events)
  PROVE  /\ Files \in Seq(Seq(Events)) /\ Len(Files) = Len(archives) + 1 /\ Len(archives) \in Nat
         /\ Files[Len(archives) + 1] = activeFile
         /\ \A m \in 1..Len(archives) : Files[m] = archives[m] /\ m \in 1..Len(Files)
         /\ Len(archives) + 1 \in 1..Len(Files)
         /\ \A m \in 1..Len(Files) : Files[m] \in Seq(Events)
                                    /\ (m = Len(archives) + 1 \/ m \in 1..Len(archives))
  <1>1. /\ Files \in Seq(Seq(Events)) /\ Len(Files) = Len(archives) + 1 /\ Len(archives) \in Nat
        /\ Files[Len(archives) + 1] = activeFile
        /\ \A m \in 1..Len(archives) : Files[m] = archives[m]
    BY AppendProperties DEF Files
  <1>2. \A m \in 1..Len(Files) : Files[m] \in Seq(Events)
    BY <1>1
  <1> QED BY <1>1, <1>2

(* A line is written once; a rotation moves a file as a whole.             *)
LEMMA LinesKept ==
  ASSUME LogInv, [LogNext]_logVars
  PROVE  LinesAreInOnePlace'
  <1>t. LogTypeOK /\ LinesAreInOnePlace
    BY DEF LogInv
  <1>n. sent \in Nat /\ unwritten \subseteq 1..sent
    BY <1>t, LogNumbers DEF LogTypeOK
  <1>1. CASE Broadcast
    <2>1. Files' = Files /\ sent' = sent + 1 /\ unwritten' = unwritten \cup {sent + 1}
      BY <1>1 DEF Broadcast, Files
    <2>2. (1..sent) \ unwritten \subseteq (1..sent') \ unwritten'
      BY <1>n, <2>1
    <2> QED BY <1>t, <2>1, <2>2 DEF LinesAreInOnePlace
  <1>2. CASE \E e \in Events : WriteLine(e)
    <2>1. PICK e \in Events : WriteLine(e)
      BY <1>2
    <2>2. /\ e \in unwritten /\ e \in 1..sent /\ sent' = sent
          /\ (1..sent') \ unwritten' = ((1..sent) \ unwritten) \cup {e}
      BY <1>n, <2>1 DEF WriteLine
    <2>3. /\ activeFile \in Seq(Events) /\ archives \in Seq(Seq(Events))
      BY <1>t DEF LogTypeOK
    <2>4. \A m \in 1..Len(Files) : e \notin Range(Files[m])
      BY <1>t, <2>2 DEF LinesAreInOnePlace
    <2> DEFINE last == Len(archives) + 1
    <2>5. /\ Files \in Seq(Seq(Events)) /\ Len(Files) = last /\ last \in Nat
          /\ Files[last] = activeFile /\ last \in 1..Len(Files)
      BY <2>3, FilesAsList
    <2>6. CASE Len(activeFile) >= FileSize
      <3>1. Files' = Append(Files, <<e>>)
        BY <2>1, <2>6 DEF WriteLine, Files
      <3>2. Range(<<e>>) = {e} /\ IsInjective(<<e>>) /\ <<e>> \in Seq(Events)
        BY DEF Range, IsInjective
      <3> HIDE DEF last
      <3>3. /\ Len(Files') = last + 1 /\ Files'[last + 1] = <<e>>
            /\ \A m \in 1..last : Files'[m] = Files[m]
        BY <2>5, <3>1, <3>2, AppendProperties
      <3>4. \A m \in 1..Len(Files') : m = last + 1 \/ m \in 1..last
        BY <2>5, <3>3
      <3>5. \A m \in 1..Len(Files') : /\ IsInjective(Files'[m])
                                      /\ Range(Files'[m]) \subseteq (1..sent') \ unwritten'
        BY <1>t, <2>2, <2>5, <3>2, <3>3, <3>4 DEF LinesAreInOnePlace
      <3>6. \A m, n \in 1..Len(Files') : m # n => Range(Files'[m]) \cap Range(Files'[n]) = {}
        <4> SUFFICES ASSUME NEW m \in 1..Len(Files'), NEW n \in 1..Len(Files'), m # n
                     PROVE  Range(Files'[m]) \cap Range(Files'[n]) = {}
          OBVIOUS
        <4>1. CASE m = last + 1 /\ n \in 1..last
          BY <2>4, <2>5, <3>2, <3>3, <4>1
        <4>2. CASE n = last + 1 /\ m \in 1..last
          BY <2>4, <2>5, <3>2, <3>3, <4>2
        <4>3. CASE m \in 1..last /\ n \in 1..last
          BY <1>t, <2>5, <3>3, <4>3 DEF LinesAreInOnePlace
        <4> QED BY <3>4, <4>1, <4>2, <4>3
      <3> QED BY <3>5, <3>6 DEF LinesAreInOnePlace
    <2>7. CASE ~(Len(activeFile) >= FileSize)
      <3>1. archives' = archives /\ activeFile' = Append(activeFile, e)
        BY <2>1, <2>7 DEF WriteLine
      <3>2. /\ Range(activeFile') = Range(activeFile) \cup {e} /\ activeFile' \in Seq(Events)
            /\ IsInjective(activeFile) /\ e \notin Range(activeFile) => IsInjective(activeFile')
        BY <2>3, <3>1, RangeOfAppend
      <3>3. /\ Len(Files') = last /\ Files'[last] = activeFile'
            /\ \A m \in 1..last : m # last => Files'[m] = Files[m]
        BY <2>3, <3>1, <3>2, FilesAsList, AppendProperties DEF Files
      <3> HIDE DEF last
      <3>4. /\ Range(Files'[last]) = Range(Files[last]) \cup {e} /\ IsInjective(Files'[last])
        BY <1>t, <2>4, <2>5, <3>2, <3>3 DEF LinesAreInOnePlace
      <3>5. \A m \in 1..Len(Files') : /\ IsInjective(Files'[m])
                                      /\ Range(Files'[m]) \subseteq (1..sent') \ unwritten'
        BY <1>t, <2>2, <2>5, <3>3, <3>4 DEF LinesAreInOnePlace
      <3>6. \A m, n \in 1..Len(Files') : m # n => Range(Files'[m]) \cap Range(Files'[n]) = {}
        <4> SUFFICES ASSUME NEW m \in 1..last, NEW n \in 1..last, m # n
                     PROVE  Range(Files'[m]) \cap Range(Files'[n]) = {}
          BY <3>3
        <4>1. Range(Files[m]) \cap Range(Files[n]) = {} /\ e \notin Range(Files[m]) \cup Range(Files[n])
          BY <1>t, <2>4, <2>5 DEF LinesAreInOnePlace
        <4>2. CASE m = last
          BY <3>3, <3>4, <4>1, <4>2
        <4>3. CASE n = last
          BY <3>3, <3>4, <4>1, <4>3
        <4>4. CASE m # last /\ n # last
          BY <3>3, <4>1, <4>4
        <4> QED BY <4>2, <4>3, <4>4
      <3> QED BY <3>5, <3>6 DEF LinesAreInOnePlace
    <2> QED BY <2>6, <2>7
  <1>3. CASE UNCHANGED fileVars
    BY <1>t, <1>3 DEF LinesAreInOnePlace, Files, fileVars
  <1>4. StreamProgress \/ EndOfStream \/ Connect \/ Reject \/ Display \/ Disconnect
          \/ UNCHANGED logVars => UNCHANGED fileVars
    BY DEF StreamProgress, Subscribe, ListPaths, ReadActive, ReadArchive, ReadFails, HistoryRead,
           SendHistory, GoLive, Receive, Lag, EndOfStream, Connect, Reject, Display, Disconnect, logVars
  <1> QED BY <1>1, <1>2, <1>3, <1>4 DEF LogNext

(* Every step keeps what each stage leaves empty.                          *)
LEMMA StagesKept ==
  ASSUME LogInv, [LogNext]_logVars
  PROVE  Stages'
  <1>t. Stages /\ LogTypeOK
    BY DEF LogInv
  <1>1. CASE Broadcast \/ \E e \in Events : WriteLine(e)
    BY <1>t, <1>1 DEF Stages, Broadcast, WriteLine, serverVars, viewerVars, noteVars
  <1>2. CASE Subscribe
    BY <1>t, <1>2 DEF Stages, Subscribe, viewerVars
  <1>3. CASE ListPaths
    BY <1>t, <1>3 DEF Stages, ListPaths, viewerVars, Limit
  <1>4. CASE ReadActive
    BY <1>t, <1>4 DEF Stages, ReadActive, Limit, viewerVars
  <1>5. CASE ReadArchive
    <2>1. lines # 0
      <3>1. Len(history) \in Nat
        BY <1>t DEF LogTypeOK
      <3> QED BY <1>5, <3>1 DEF ReadArchive, Limit
    <2> QED BY <1>t, <1>5, <2>1 DEF Stages, ReadArchive, viewerVars
  <1>6. CASE HistoryRead
    BY <1>t, <1>6 DEF Stages, HistoryRead, viewerVars, noteVars
  <1>7. CASE SendHistory
    BY <1>t, <1>7 DEF Stages, SendHistory, viewerVars, noteVars
  <1>8. CASE GoLive
    BY <1>t, <1>8 DEF Stages, GoLive, viewerVars, noteVars
  <1>9. CASE Receive \/ Lag \/ EndOfStream
    BY <1>t, <1>9 DEF Stages, Receive, Lag, EndOfStream, viewerVars, noteVars
  <1>10. CASE Connect
    BY <1>t, <1>10 DEF Stages, Connect, noteVars
  <1>11. CASE Reject
    BY <1>t, <1>11 DEF Stages, Reject, serverVars, noteVars
  <1>12. CASE Display
    BY <1>t, <1>12 DEF Stages, Display, serverVars
  <1>13. CASE Disconnect
    BY <1>t, <1>13 DEF Stages, Disconnect
  <1>14. CASE UNCHANGED logVars
    BY <1>t, <1>14 DEF Stages, logVars, serverVars, viewerVars, noteVars
  <1>15. CASE ReadFails
    BY <1>t, <1>15 DEF Stages, ReadFails, viewerVars, noteVars
  <1> QED BY <1>1, <1>2, <1>3, <1>4, <1>5, <1>6, <1>7, <1>8, <1>9, <1>10, <1>11, <1>12, <1>13,
             <1>14, <1>15 DEF LogNext, StreamProgress

(* What Display takes from the connection: an event it has never           *)
(* displayed, or a notice.                                                 *)
LEMMA DisplayTakes ==
  ASSUME LogInv, Display
  PROVE  /\ stream \in {"history", "live", "ended"} /\ viewer = "reading" /\ follow
         /\ wire \in Seq(Int) /\ wire # <<>> /\ wire' = Tail(wire) /\ Tail(wire) \in Seq(Int)
         /\ Head(wire) \in Range(wire) /\ Head(wire) \in Int
         /\ Range(wire) = {Head(wire)} \cup Range(Tail(wire))
         /\ Head(wire) >= 0 => Head(wire) \in 1..sent /\ Head(wire) \notin shown
                               /\ Head(wire) \notin clientSeen
                               /\ Head(wire) \notin Range(Tail(wire))
         /\ shown' = IF Head(wire) < 0 THEN shown ELSE shown \cup {Head(wire)}
         /\ repeated' = repeated
  <1>t. LogTypeOK /\ Stages /\ SentOnce /\ ShownBefore
    BY DEF LogInv
  <1>1. wire # <<>> /\ wire' = Tail(wire)
    BY DEF Display
  <1>2. stream \in {"history", "live", "ended"}
    BY <1>t, <1>1 DEF Stages
  <1>3. viewer = "reading" /\ follow
    BY <1>t, <1>2 DEF Stages
  <1>4. wire \in Seq(Int)
    BY <1>t, OnTheWire
  <1>5. /\ Head(wire) \in Int /\ Tail(wire) \in Seq(Int) /\ Head(wire) = wire[1] /\ 1 \in DOMAIN wire
        /\ Range(wire) = {Head(wire)} \cup Range(Tail(wire))
    BY <1>1, <1>4, RangeOfTail
  <1>6. ASSUME Head(wire) >= 0
        PROVE  /\ Head(wire) \in 1..sent /\ Head(wire) \notin shown /\ Head(wire) \notin clientSeen
               /\ Head(wire) \notin Range(Tail(wire))
    <2>1. Head(wire) \in 1..sent
      BY <1>t, <1>5, <1>6 DEF SentOnce
    <2>2. Head(wire) \notin shown
      BY <1>t, <1>5 DEF SentOnce
    <2>3. Head(wire) \notin clientSeen
      BY <1>t, <1>3, <2>2 DEF ShownBefore
    <2>4. Head(wire) > 0
      BY <2>1
    <2>5. Head(wire) \notin Range(Tail(wire))
      BY <1>t, <1>1, <1>4, <2>4, OnceEachTail DEF SentOnce
    <2> QED BY <2>1, <2>2, <2>3, <2>5
  <1>7. CASE Head(wire) < 0
    <2>1. shown' = shown /\ repeated' = repeated /\ ~(Head(wire) >= 0)
      BY <1>5, <1>7 DEF Display
    <2> QED BY <1>1, <1>2, <1>3, <1>4, <1>5, <1>7, <2>1
  <1>8. CASE ~(Head(wire) < 0)
    <2>1. Head(wire) >= 0
      BY <1>5, <1>8
    <2>2. Head(wire) \notin clientSeen /\ Head(wire) \notin shown
      BY <1>6, <2>1
    <2>3. shown' = shown \cup {Head(wire)} /\ repeated' = repeated
      BY <1>8, <2>2 DEF Display
    <2> QED BY <1>1, <1>2, <1>3, <1>4, <1>5, <1>6, <1>8, <2>1, <2>3
  <1> QED BY <1>7, <1>8

(* A connection begins with what is displayed behind it.                   *)
LEMMA ShownKept ==
  ASSUME LogInv, [LogNext]_logVars
  PROVE  ShownBefore'
  <1>t. LogTypeOK /\ Stages /\ ShownBefore /\ HistoryIsNew
    BY DEF LogInv
  <1>n. sent \in Nat /\ position \in Nat /\ position <= sent
    BY <1>t, LogNumbers
  <1>1. CASE Broadcast
    <2>1. 1..sent \subseteq 1..sent'
      BY <1>n, <1>1 DEF Broadcast
    <2> QED BY <1>t, <1>1, <2>1 DEF ShownBefore, Broadcast, serverVars, viewerVars
  <1>2. CASE \E e \in Events : WriteLine(e)
    BY <1>t, <1>2 DEF ShownBefore, WriteLine, serverVars, viewerVars
  <1>3. CASE Subscribe
    BY <1>t, <1>3 DEF ShownBefore, Subscribe, fileVars, viewerVars
  <1>4. CASE ListPaths \/ ReadActive \/ ReadArchive \/ ReadFails
    <2>1. /\ UNCHANGED <<sent, position, shown, viewer, clientSeen, lines, follow>>
          /\ stream \in {"listing", "active", "archives"}
      BY <1>4 DEF ListPaths, ReadActive, ReadArchive, ReadFails, fileVars, viewerVars
    <2> QED BY <1>t, <2>1 DEF ShownBefore
  <1>5. CASE HistoryRead
    <2>1. clientSeen' = clientSeen /\ sent' = sent /\ lines' = lines /\ follow' = follow
      BY <1>5 DEF HistoryRead, fileVars
    <2>2. CASE follow
      <3>1. shown' = shown /\ viewer' = viewer /\ stream' = "history"
        BY <1>5, <2>2 DEF HistoryRead
      <3> QED BY <1>t, <2>1, <3>1 DEF ShownBefore
    <2>3. CASE ~follow
      <3>1. shown' = Range(history) /\ viewer' = "done"
        BY <1>5, <2>3 DEF HistoryRead
      <3> QED BY <1>t, <2>1, <2>3, <3>1 DEF ShownBefore, HistoryIsNew
    <2> QED BY <2>2, <2>3
  <1>6. CASE SendHistory \/ GoLive \/ Receive \/ Lag \/ EndOfStream
    BY <1>t, <1>6 DEF ShownBefore, SendHistory, GoLive, Receive, Lag, EndOfStream, fileVars, viewerVars
  <1>7. CASE Connect
    BY <1>t, <1>7 DEF ShownBefore, Stages, Connect, fileVars
  <1>8. CASE Reject
    BY <1>t, <1>8 DEF ShownBefore, Stages, Reject, fileVars, serverVars
  <1>9. CASE Display
    <2>1. /\ stream \in {"history", "live", "ended"} /\ stream' = stream /\ sent' = sent /\ viewer = "reading"
          /\ shown' = IF Head(wire) < 0 THEN shown ELSE shown \cup {Head(wire)}
          /\ Head(wire) \in Int /\ (Head(wire) >= 0 => Head(wire) \in 1..sent)
      BY <1>9, DisplayTakes DEF Display, fileVars, serverVars
    <2>2. clientSeen' \subseteq shown'
      <3>1. CASE Head(wire) < 0
        BY <1>t, <1>9, <2>1, <3>1 DEF Display, ShownBefore
      <3>2. CASE ~(Head(wire) < 0)
        BY <1>t, <1>9, <2>1, <3>2 DEF Display, Remember, ShownBefore
      <3> QED BY <3>1, <3>2
    <2>3. shown' \subseteq 1..sent'
      <3>1. shown \subseteq 1..sent
        BY <1>t DEF ShownBefore
      <3>2. CASE Head(wire) < 0
        BY <2>1, <3>1, <3>2
      <3>3. CASE ~(Head(wire) < 0)
        <4>1. Head(wire) \in 1..sent
          BY <2>1, <3>3
        <4> QED BY <2>1, <3>1, <3>3, <4>1
      <3> QED BY <3>2, <3>3
    <2> QED BY <2>1, <2>2, <2>3 DEF ShownBefore
  <1>10. CASE Disconnect
    BY <1>t, <1>10 DEF ShownBefore, Stages, Disconnect, LinesAfter, fileVars
  <1>11. CASE UNCHANGED logVars
    BY <1>t, <1>11 DEF ShownBefore, logVars, fileVars, serverVars, viewerVars
  <1> QED BY <1>1, <1>2, <1>3, <1>4, <1>5, <1>6, <1>7, <1>8, <1>9, <1>10, <1>11
          DEF LogNext, StreamProgress
-----------------------------------------------------------------------------
(* The files that are read, and what is read of them.                      *)

(* The files that were listed are read in their order.                     *)
LEMMA PathsKept ==
  ASSUME LogInv, [LogNext]_logVars
  PROVE  PathsDescend'
  <1>t. LogTypeOK /\ Stages /\ PathsDescend
    BY DEF LogInv
  <1>n. Len(archives) \in Nat
    BY <1>t, LogNumbers
  <1>1. CASE UNCHANGED <<archives, paths>> /\ (stream' = "active" /\ ~rotated' => stream = "active" /\ ~rotated)
    BY <1>t, <1>1 DEF PathsDescend, Listed, Kept
  <1>2. CASE \E e \in Events : WriteLine(e)
    <2>1. PICK e \in Events : WriteLine(e)
      BY <1>2
    <2>2. paths' = paths /\ stream' = stream
      BY <2>1 DEF WriteLine, serverVars
    <2>3. CASE Len(activeFile) >= FileSize
      <3>1. archives' = Append(archives, activeFile) /\ rotated' = (rotated \/ stream = "active")
        BY <2>1, <2>3 DEF WriteLine
      <3>2. archives \in Seq(Seq(Events)) /\ activeFile \in Seq(Events)
        BY <1>t DEF LogTypeOK
      <3>3. Len(archives') = Len(archives) + 1
        BY <3>1, <3>2
      <3>4. 1..Len(archives) \subseteq 1..Len(archives')
        BY <1>n, <3>3
      <3> QED BY <1>t, <2>2, <3>1, <3>4 DEF PathsDescend
    <2>4. CASE ~(Len(activeFile) >= FileSize)
      <3>1. archives' = archives /\ rotated' = rotated
        BY <2>1, <2>4 DEF WriteLine
      <3> QED BY <1>1, <2>2, <3>1
    <2> QED BY <2>3, <2>4
  <1>3. CASE ListPaths
    <2>1. archives' = archives
      BY <1>3 DEF ListPaths, fileVars
    <2>2. CASE Limit = 0
      <3>1. paths' = <<>> /\ stream' = "archives"
        BY <1>3, <2>2 DEF ListPaths
      <3> QED BY <3>1 DEF PathsDescend
    <2>3. CASE Limit # 0
      <3>1. paths' = Listed /\ Listed' = Listed
        BY <1>3, <2>1, <2>3 DEF ListPaths, Listed, Kept
      <3>2. /\ DOMAIN Listed = 1..Kept /\ Kept \in Nat
            /\ \A i \in 1..Kept : Listed[i] = Len(archives) + 1 - i /\ Listed[i] \in 1..Len(archives)
        BY <1>t, ListedType DEF Listed
      <3>3. \A i \in DOMAIN Listed : Listed[i] \in 1..Len(archives) /\ Listed[i] = Listed[1] + 1 - i
        BY <1>n, <3>2
      <3> HIDE DEF Listed
      <3> QED BY <2>1, <3>1, <3>3 DEF PathsDescend
    <2> QED BY <2>2, <2>3
  <1>4. CASE ReadArchive
    <2>1. /\ paths \in Seq(Nat) /\ paths # <<>> /\ paths' = Tail(paths) /\ archives' = archives
          /\ stream' = "archives"
      BY <1>t, <1>4 DEF ReadArchive, LogTypeOK, fileVars
    <2>2. /\ DOMAIN paths = 1..Len(paths) /\ DOMAIN paths' = 1..Len(paths') /\ Len(paths') \in Nat
          /\ \A i \in 1..Len(paths') : paths'[i] = paths[i + 1] /\ i + 1 \in 1..Len(paths)
      BY <2>1, RangeOfTail
    <2>3. ASSUME NEW i \in 1..Len(paths')
          PROVE  paths'[i] \in 1..Len(archives) /\ paths'[i] = paths'[1] + 1 - i
      <3>1. 1 \in 1..Len(paths') /\ 1 \in 1..Len(paths)
        BY <2>2
      <3>2. /\ paths'[i] = paths[i + 1] /\ paths'[1] = paths[1 + 1]
            /\ i + 1 \in DOMAIN paths /\ 1 + 1 \in DOMAIN paths /\ paths[1] \in 1..Len(archives)
        BY <1>t, <2>2, <3>1 DEF PathsDescend
      <3>3. /\ paths[i + 1] \in 1..Len(archives) /\ paths[i + 1] = paths[1] + 1 - (i + 1)
            /\ paths[1 + 1] = paths[1] + 1 - (1 + 1)
        BY <1>t, <3>2 DEF PathsDescend
      <3> QED BY <1>n, <3>2, <3>3
    <2> QED BY <2>1, <2>2, <2>3 DEF PathsDescend
  <1>5. CASE ReadFails \/ HistoryRead \/ Disconnect
    <2>1. paths' = <<>> /\ stream' # "active"
      BY <1>5 DEF ReadFails, HistoryRead, Disconnect
    <2> QED BY <2>1 DEF PathsDescend
  <1>6. CASE Broadcast \/ Subscribe \/ ReadActive \/ SendHistory \/ GoLive \/ Receive \/ Lag \/ EndOfStream
    BY <1>1, <1>6 DEF Broadcast, Subscribe, ReadActive, SendHistory, GoLive, Receive, Lag, EndOfStream,
       fileVars, serverVars, noteVars
  <1>7. CASE Connect \/ Reject \/ Display \/ UNCHANGED logVars
    BY <1>1, <1>7 DEF Connect, Reject, Display, logVars, fileVars, serverVars, noteVars
  <1> QED BY <1>2, <1>3, <1>4, <1>5, <1>6, <1>7 DEF LogNext, StreamProgress

(* Files still to read are none of the ones that were read.                *)
LEMMA NextFile ==
  ASSUME LogInv, paths # <<>>
  PROVE  /\ paths \in Seq(Nat) /\ Head(paths) \in 1..Len(archives) /\ Head(paths) \in Range(paths)
         /\ Range(Tail(paths)) \subseteq Range(paths) \cap 1..(Head(paths) - 1)
         /\ \A n \in Range(paths) : n \in 1..Head(paths) /\ n \in 1..Len(archives)
         /\ Tail(paths) # <<>> => Head(Tail(paths)) = Head(paths) - 1
         /\ \A n \in 1..(Head(paths) - 1) : n \in Range(paths) => n \in Range(Tail(paths))
  <1>t. LogTypeOK /\ PathsDescend
    BY DEF LogInv
  <1>n. Len(archives) \in Nat
    BY <1>t, LogNumbers
  <1>1. paths \in Seq(Nat)
    BY <1>t DEF LogTypeOK
  <1>2. /\ DOMAIN paths = 1..Len(paths) /\ Len(paths) \in Nat /\ 1 \in 1..Len(paths)
        /\ Head(paths) = paths[1] /\ Tail(paths) \in Seq(Nat) /\ Len(Tail(paths)) = Len(paths) - 1
        /\ \A i \in 1..Len(Tail(paths)) : Tail(paths)[i] = paths[i + 1] /\ i + 1 \in 1..Len(paths)
        /\ Range(paths) = {paths[1]} \cup Range(Tail(paths))
    BY <1>1, RangeOfTail
  <1>3. \A i \in 1..Len(paths) : paths[i] \in 1..Len(archives) /\ paths[i] = paths[1] + 1 - i
    BY <1>t, <1>2 DEF PathsDescend
  <1>4. \A n \in Range(paths) : n \in 1..paths[1] /\ n \in 1..Len(archives)
    <2> SUFFICES ASSUME NEW i \in 1..Len(paths) PROVE paths[i] \in 1..paths[1] /\ paths[i] \in 1..Len(archives)
      BY <1>2 DEF Range
    <2> QED BY <1>n, <1>2, <1>3
  <1>5. \A n \in Range(Tail(paths)) : n \in 1..(paths[1] - 1)
    <2>a. \A x \in Range(Tail(paths)) : \E i \in 1..Len(Tail(paths)) : Tail(paths)[i] = x
      BY <1>2, RangeInSet
    <2> SUFFICES ASSUME NEW i \in 1..Len(Tail(paths)) PROVE Tail(paths)[i] \in 1..(paths[1] - 1)
      BY <2>a
    <2>1. Tail(paths)[i] = paths[i + 1] /\ i + 1 \in 1..Len(paths) /\ i >= 1
      BY <1>2
    <2>2. paths[i + 1] \in 1..Len(archives) /\ paths[i + 1] = paths[1] + 1 - (i + 1) /\ paths[1] \in 1..Len(archives)
      BY <1>2, <1>3, <2>1
    <2> QED BY <1>n, <2>1, <2>2
  <1>6. ASSUME Tail(paths) # <<>> PROVE Head(Tail(paths)) = paths[1] - 1
    <2>1. 1 \in 1..Len(Tail(paths)) /\ Head(Tail(paths)) = Tail(paths)[1]
      BY <1>2, <1>6
    <2>2. Head(Tail(paths)) = paths[1 + 1] /\ 1 + 1 \in 1..Len(paths)
      BY <1>2, <2>1
    <2>3. paths[1 + 1] = paths[1] + 1 - (1 + 1) /\ paths[1] \in 1..Len(archives)
      BY <1>2, <1>3, <2>2
    <2> QED BY <1>n, <2>2, <2>3
  <1>7. paths[1] \in 1..Len(archives)
    BY <1>2, <1>3
  <1>8. \A n \in 1..(paths[1] - 1) : n # paths[1]
    BY <1>n, <1>7
  <1> QED BY <1>1, <1>2, <1>4, <1>5, <1>6, <1>7, <1>8

(* What is read is new, since a line is in one place.                      *)
LEMMA HistoryKept ==
  ASSUME LogInv, [LogNext]_logVars
  PROVE  HistoryIsNew'
  <1>t. LogTypeOK /\ Stages /\ PathsDescend /\ HistoryIsNew /\ LinesAreInOnePlace /\ ShownBefore /\ SentOnce
    BY DEF LogInv
  <1>n. sent \in Nat /\ Len(archives) \in Nat /\ history \in Seq(Events) /\ paths \in Seq(Nat)
    BY <1>t, LogNumbers DEF LogTypeOK
  <1>f. /\ Len(Files) = Len(archives) + 1 /\ Files[Len(archives) + 1] = activeFile
        /\ \A m \in 1..Len(archives) : Files[m] = archives[m] /\ m \in 1..Len(Files)
        /\ Len(archives) + 1 \in 1..Len(Files)
        /\ activeFile \in Seq(Events)
    BY <1>t, FilesAsList DEF LogTypeOK
  <1>p. \A n \in Range(paths) : n \in 1..Len(archives)
    BY <1>t, <1>n DEF PathsDescend, Range
  <1>1. CASE Broadcast
    <2>1. 1..sent \subseteq 1..sent'
      BY <1>n, <1>1 DEF Broadcast
    <2> QED BY <1>t, <1>1, <2>1 DEF HistoryIsNew, Broadcast, serverVars, viewerVars
  <1>2. CASE \E e \in Events : WriteLine(e)
    <2>1. PICK e \in Events : WriteLine(e)
      BY <1>2
    <2>2. \A n \in Range(paths) : archives'[n] = archives[n]
      <3>1. archives \in Seq(Seq(Events)) /\ activeFile \in Seq(Events)
        BY <1>t DEF LogTypeOK
      <3>2. archives' = archives \/ archives' = Append(archives, activeFile)
        BY <2>1 DEF WriteLine
      <3>3. \A n \in 1..Len(archives) : Append(archives, activeFile)[n] = archives[n]
        BY <3>1
      <3> QED BY <1>p, <3>2, <3>3
    <2> QED BY <1>t, <2>1, <2>2 DEF HistoryIsNew, WriteLine, serverVars, viewerVars
  <1>3. CASE ListPaths
    <2>1. history = <<>> /\ history' = history /\ stream' # "history"
      BY <1>t, <1>3 DEF Stages, ListPaths
    <2> QED BY <2>1, EmptyRange DEF HistoryIsNew
  <1>4. CASE ReadActive
    <2>0. PICK k \in Nat : history' = Newest(activeFile, k)
      BY <1>t, <1>4, ActiveRead
    <2>1. /\ stream' = "archives"
          /\ paths' = paths /\ archives' = archives /\ sent' = sent
      BY <1>4 DEF ReadActive, fileVars
    <2>2. IsInjective(activeFile) /\ Range(activeFile) \subseteq 1..sent
          /\ \A n \in 1..Len(archives) : Range(activeFile) \cap Range(archives[n]) = {}
      <3>1. \A n \in 1..Len(archives) : n # Len(archives) + 1
        BY <1>n
      <3> QED BY <1>t, <1>f, <3>1 DEF LinesAreInOnePlace
    <2>3. Range(history') \subseteq Range(activeFile) /\ IsInjective(history')
      BY <1>f, <2>0, <2>2, NewestOf
    <2> QED BY <1>p, <2>1, <2>2, <2>3 DEF HistoryIsNew
  <1>5. CASE ReadArchive
    <2>0. PICK k \in Nat : history' = Newest(FileLines(Head(paths)), k) \o history
      BY <1>t, <1>5, ArchiveRead
    <2> DEFINE m == Head(paths)
               r == Newest(FileLines(m), k)
    <2>1. /\ paths # <<>> /\ history' = r \o history /\ paths' = Tail(paths) /\ archives' = archives
          /\ sent' = sent /\ stream' = "archives"
      BY <1>5, <2>0 DEF ReadArchive, fileVars
    <2>2. /\ m \in 1..Len(archives) /\ m \in Range(paths)
          /\ \A n \in Range(Tail(paths)) : n \in Range(paths) /\ n # m
      <3>1. Range(Tail(paths)) \subseteq Range(paths) \cap 1..(m - 1) /\ m \in 1..Len(archives) /\ m \in Range(paths)
        BY <2>1, NextFile
      <3>2. \A n \in 1..(m - 1) : n # m
        BY <3>1, <1>n
      <3> QED BY <3>1, <3>2
    <2>4. FileLines(m) \in Seq(Events) /\ (FileLines(m) = archives[m] \/ FileLines(m) = <<>>)
      BY <1>t, <2>2, FileLinesType DEF FileLines
    <2>5. /\ IsInjective(archives[m]) /\ Range(archives[m]) \subseteq 1..sent
          /\ \A n \in 1..Len(archives) : n # m => Range(archives[m]) \cap Range(archives[n]) = {}
      BY <1>t, <1>f, <2>2 DEF LinesAreInOnePlace
    <2>6. IsInjective(FileLines(m)) /\ Range(FileLines(m)) \subseteq Range(archives[m])
      BY <2>4, <2>5, EmptyRange
    <2>7. r \in Seq(Events) /\ IsInjective(r) /\ Range(r) \subseteq Range(archives[m])
      BY <2>4, <2>6, NewestOf
    <2> HIDE DEF r, m
    <2>8. Range(r) \cap Range(history) = {}
      BY <1>t, <2>2, <2>7 DEF HistoryIsNew
    <2>9. IsInjective(history') /\ Range(history') = Range(r) \cup Range(history)
      BY <1>t, <1>n, <2>1, <2>7, <2>8, RangeOfJoin DEF HistoryIsNew
    <2>10. \A n \in Range(paths') : Range(history') \cap Range(archives'[n]) = {}
      BY <1>t, <1>p, <2>1, <2>2, <2>5, <2>7, <2>9 DEF HistoryIsNew
    <2> QED BY <1>t, <2>1, <2>5, <2>7, <2>9, <2>10 DEF HistoryIsNew
  <1>6. CASE HistoryRead
    <2>1. paths' = <<>> /\ sent' = sent /\ serverSeen' = Range(history) /\ wire' = wire /\ wire = <<>>
      BY <1>t, <1>6 DEF HistoryRead, fileVars, Stages
    <2>2. CASE follow
      <3>1. history' = history /\ shown' = shown
        BY <1>6, <2>2 DEF HistoryRead
      <3>2. Range(history) \cap shown = {}
        <4>1. stream = "archives" /\ viewer # "done"
          BY <1>t, <1>6 DEF HistoryRead, Stages
        <4>2. lines = 0 => Range(history) = {}
          BY <1>t, EmptyRange DEF Stages
        <4> QED BY <1>t, <4>1, <4>2 DEF ShownBefore
      <3> QED BY <1>t, <2>1, <3>1, <3>2, EmptyRange DEF HistoryIsNew
    <2>3. CASE ~follow
      <3>1. history' = <<>> /\ stream' = "none"
        BY <1>6, <2>3 DEF HistoryRead
      <3> QED BY <3>1, EmptyRange DEF HistoryIsNew
    <2> QED BY <2>2, <2>3
  <1>7. CASE SendHistory
    <2>1. /\ history # <<>> /\ wire' = Append(wire, Head(history)) /\ history' = Tail(history)
          /\ stream = "history" /\ UNCHANGED <<stream, paths, archives, sent, shown, serverSeen>>
      BY <1>7 DEF SendHistory, fileVars, viewerVars
    <2>2. paths = <<>>
      BY <1>t, <2>1 DEF Stages
    <2>3. /\ Range(history) = {Head(history)} \cup Range(history') /\ IsInjective(history')
          /\ Head(history) \notin Range(history') /\ Head(history) \in Events
      BY <1>t, <1>n, <2>1, RangeOfTail DEF HistoryIsNew
    <2>4. Range(wire') = Range(wire) \cup {Head(history)}
      <3>1. wire \in Seq(Int) /\ Head(history) \in Int
        BY <1>t, <2>3, OnTheWire DEF Events
      <3> QED BY <2>1, <3>1, RangeOfAppend
    <2> QED BY <1>t, <2>1, <2>2, <2>3, <2>4, EmptyRange DEF HistoryIsNew
  <1>8. CASE Subscribe \/ GoLive \/ Receive \/ Lag \/ EndOfStream \/ Connect \/ Reject
    <2>1. history = <<>> /\ history' = history /\ stream' # "history"
      BY <1>t, <1>8 DEF Stages, Subscribe, GoLive, Receive, Lag, EndOfStream, Connect, Reject, serverVars
    <2> QED BY <2>1, EmptyRange DEF HistoryIsNew
  <1>9. CASE Display
    <2>1. UNCHANGED <<sent, archives, stream, paths, history, serverSeen>>
      BY <1>9 DEF Display, fileVars, serverVars
    <2>2. shown' \cup Range(wire') \subseteq shown \cup Range(wire)
      BY <1>9, DisplayTakes
    <2> QED BY <1>t, <2>1, <2>2 DEF HistoryIsNew
  <1>10. CASE Disconnect
    <2>1. history' = <<>> /\ stream' = "none"
      BY <1>10 DEF Disconnect
    <2> QED BY <2>1, EmptyRange DEF HistoryIsNew
  <1>11. CASE UNCHANGED logVars
    BY <1>t, <1>11 DEF HistoryIsNew, logVars, fileVars, serverVars, viewerVars
  <1>12. CASE ReadFails
    BY <1>12, EmptyRange DEF ReadFails, HistoryIsNew
  <1> QED BY <1>1, <1>2, <1>3, <1>4, <1>5, <1>6, <1>7, <1>8, <1>9, <1>10, <1>11, <1>12
          DEF LogNext, StreamProgress
-----------------------------------------------------------------------------
(* What is sent, and what the server remembers of it.                      *)

(* The history is sent before the live events, and none of these that it   *)
(* had.                                                                    *)
LEMMA SentKept ==
  ASSUME LogInv, [LogNext]_logVars
  PROVE  SentOnce'
  <1>t. LogTypeOK /\ Stages /\ HistoryIsNew /\ ShownBefore /\ SentOnce
    BY DEF LogInv
  <1>n. /\ sent \in Nat /\ position \in Nat /\ position <= sent /\ history \in Seq(Events)
        /\ ChannelCapacity \in Nat
    BY <1>t, LogNumbers DEF LogTypeOK
  <1>w. wire \in Seq(Int) /\ Range(wire) \subseteq Int
    BY <1>t, OnTheWire
  <1>e. ASSUME wire = <<>> PROVE OnceEach(wire) /\ DOMAIN wire = {} /\ Range(wire) = {}
    BY <1>e, EmptyRange DEF OnceEach
  <1>1. CASE Broadcast
    <2>1. UNCHANGED <<wire, shown, stream, position, serverSeen>> /\ 1..sent \subseteq 1..sent'
      BY <1>n, <1>1 DEF Broadcast, serverVars, viewerVars
    <2> QED BY <1>t, <2>1 DEF SentOnce
  <1>2. CASE UNCHANGED <<sent, wire, shown, position, serverSeen>>
               /\ (stream' \in {"history", "live"} => stream \in {"history", "live"})
    BY <1>t, <1>2 DEF SentOnce
  <1>3. CASE Subscribe \/ ListPaths \/ ReadActive \/ ReadArchive \/ ReadFails \/ Connect \/ Reject
    <2>1. UNCHANGED <<sent, wire, shown>> /\ stream' \notin {"history", "live"}
      BY <1>t, <1>3 DEF Subscribe, ListPaths, ReadActive, ReadArchive, ReadFails, Connect, Reject, Stages,
                        fileVars, viewerVars, serverVars
    <2> QED BY <1>t, <2>1 DEF SentOnce
  <1>4. CASE HistoryRead
    <2>1. wire = <<>> /\ wire' = wire /\ position' = position /\ sent' = sent
      BY <1>t, <1>4 DEF HistoryRead, Stages, fileVars
    <2>2. CASE follow
      <3>1. shown' = shown /\ stream = "archives"
        BY <1>4, <2>2 DEF HistoryRead
      <3>2. shown \subseteq 1..position
        BY <1>t, <2>2, <3>1 DEF ShownBefore
      <3>3. \A x \in shown : x <= position
        BY <1>n, <3>2
      <3> QED BY <1>e, <2>1, <3>1, <3>3 DEF SentOnce
    <2>3. CASE ~follow
      <3>1. stream' = "none"
        BY <1>4, <2>3 DEF HistoryRead
      <3> QED BY <1>e, <2>1, <3>1 DEF SentOnce
    <2> QED BY <2>2, <2>3
  <1>5. CASE SendHistory
    <2> DEFINE x == Head(history)
    <2>1. /\ history # <<>> /\ wire' = Append(wire, x) /\ stream = "history"
          /\ UNCHANGED <<stream, sent, shown, serverSeen, position>>
      BY <1>5 DEF SendHistory, fileVars, viewerVars
    <2>2. x \in Range(history) /\ x \in Events
      BY <1>n, <2>1, RangeOfTail
    <2> HIDE DEF x
    <2>3. x \in 1..sent /\ x \notin shown /\ x \notin Range(wire) /\ x \in serverSeen
      BY <1>t, <2>1, <2>2 DEF HistoryIsNew
    <2>4. OnceEach(wire') /\ Range(wire') = Range(wire) \cup {x} /\ wire' \in Seq(Int)
      BY <1>t, <1>w, <2>1, <2>3, OnceEachAppend, RangeOfAppend DEF SentOnce
    <2>5. \A i \in DOMAIN wire' : wire'[i] < 0 \/ wire'[i] \in 1..sent'
      <3>1. \A y \in Range(wire) \cup {x} : y < 0 \/ y \in 1..sent
        BY <1>t, <2>3 DEF SentOnce, Range
      <3> QED BY <2>1, <2>4, <3>1 DEF Range
    <2> QED BY <1>t, <2>1, <2>3, <2>4, <2>5 DEF SentOnce
  <1>6. CASE GoLive
    BY <1>2, <1>6 DEF GoLive, LiveFrom, fileVars, viewerVars
  <1>7. CASE Receive
    <2> DEFINE x == position + 1
    <2>1. /\ x \in 1..sent /\ position' = x /\ serverSeen' = serverSeen \cup {x} /\ stream = "live"
          /\ UNCHANGED <<stream, sent, shown>>
          /\ wire' = IF x \in serverSeen THEN wire ELSE Append(wire, x)
      BY <1>n, <1>7 DEF Receive, Repeated, fileVars, viewerVars
    <2>2. \A y \in shown \cup Range(wire) : y \in Int /\ (y <= x \/ y \in serverSeen')
      <3>1. shown \subseteq Int
        BY <1>t DEF ShownBefore
      <3> QED BY <1>t, <1>n, <1>w, <2>1, <3>1 DEF SentOnce
    <2>3. CASE x \in serverSeen
      BY <1>t, <2>1, <2>2, <2>3 DEF SentOnce
    <2>4. CASE x \notin serverSeen
      <3>1. x \notin shown /\ x \notin Range(wire)
        <4>1. \A y \in shown \cup Range(wire) : y <= position \/ y \in serverSeen
          BY <1>t, <2>1 DEF SentOnce
        <4>2. ~(x <= position)
          BY <1>n
        <4> QED BY <2>4, <4>1, <4>2
      <3>2. wire' = Append(wire, x) /\ x \in Int
        BY <2>1, <2>4
      <3> HIDE DEF x
      <3>3. OnceEach(wire') /\ Range(wire') = Range(wire) \cup {x} /\ wire' \in Seq(Int)
        BY <1>t, <1>w, <3>1, <3>2, OnceEachAppend, RangeOfAppend DEF SentOnce
      <3>4. \A i \in DOMAIN wire' : wire'[i] < 0 \/ wire'[i] \in 1..sent'
        <4>1. \A y \in Range(wire) \cup {x} : y < 0 \/ y \in 1..sent
          BY <1>t, <2>1 DEF SentOnce, Range
        <4> QED BY <2>1, <3>3, <4>1 DEF Range
      <3>5. \A y \in shown' \cup Range(wire') : y <= position' \/ y \in serverSeen'
        BY <2>1, <2>2, <3>2, <3>3
      <3>6. shown' \cap Range(wire') = {}
        BY <1>t, <2>1, <3>1, <3>3 DEF SentOnce
      <3> QED BY <3>3, <3>4, <3>5, <3>6 DEF SentOnce
    <2> QED BY <2>3, <2>4
  <1>8. CASE Lag
    <2> DEFINE x == -Lost
    <2>1. /\ x < 0 /\ x \in Int /\ position' \in Int /\ position < position' /\ stream = "live"
          /\ wire' = Append(wire, x) /\ UNCHANGED <<stream, sent, shown, serverSeen>> /\ x <= position'
      BY <1>n, <1>8 DEF Lag, Lost, fileVars, viewerVars
    <2> HIDE DEF x
    <2>2. OnceEach(wire') /\ Range(wire') = Range(wire) \cup {x} /\ wire' \in Seq(Int)
      BY <1>t, <1>w, <2>1, OnceEachAppend, RangeOfAppend DEF SentOnce
    <2>3. \A i \in DOMAIN wire' : wire'[i] < 0 \/ wire'[i] \in 1..sent'
      <3>1. \A y \in Range(wire) \cup {x} : y < 0 \/ y \in 1..sent
        BY <1>t, <2>1 DEF SentOnce, Range
      <3> QED BY <2>1, <2>2, <3>1 DEF Range
    <2>4. shown \subseteq 1..sent
      BY <1>t DEF ShownBefore
    <2>5. x \notin shown
      BY <2>1, <2>4
    <2>6. \A y \in shown \cup Range(wire) : y \in Int /\ (y <= position \/ y \in serverSeen)
      BY <1>t, <1>w, <2>1, <2>4 DEF SentOnce
    <2>7. \A y \in shown' \cup Range(wire') : y <= position' \/ y \in serverSeen'
      BY <1>n, <2>1, <2>2, <2>6
    <2>8. shown' \cap Range(wire') = {}
      BY <1>t, <2>1, <2>2, <2>5 DEF SentOnce
    <2> QED BY <2>2, <2>3, <2>7, <2>8 DEF SentOnce
  <1>9. CASE EndOfStream
    BY <1>t, <1>9 DEF EndOfStream, SentOnce, fileVars, viewerVars
  <1>10. CASE Display
    <2>1. /\ UNCHANGED <<sent, stream, position, serverSeen>>
          /\ wire' = Tail(wire) /\ wire # <<>>
      BY <1>10, DisplayTakes DEF Display, fileVars, serverVars
    <2>2. OnceEach(wire')
      BY <1>t, <1>w, <2>1, OnceEachTail DEF SentOnce
    <2>3. wire' \in Seq(Int) /\ Range(wire') \subseteq Range(wire) /\ shown' \subseteq shown \cup Range(wire)
      BY <1>10, DisplayTakes
    <2>4. \A i \in DOMAIN wire' : wire'[i] < 0 \/ wire'[i] \in 1..sent'
      <3>1. \A y \in Range(wire) : y < 0 \/ y \in 1..sent
        BY <1>t DEF SentOnce, Range
      <3> QED BY <2>1, <2>3, <3>1 DEF Range
    <2>5. shown' \cap Range(wire') = {}
      <3>1. CASE Head(wire) < 0
        BY <1>t, <1>10, <2>3, <3>1, DisplayTakes DEF SentOnce
      <3>2. CASE ~(Head(wire) < 0)
        <4>1. Head(wire) >= 0
          BY <1>10, <3>2, DisplayTakes
        <4>2. shown' = shown \cup {Head(wire)} /\ Head(wire) \notin Range(wire')
          BY <1>10, <3>2, <4>1, DisplayTakes
        <4> QED BY <1>t, <2>3, <4>2 DEF SentOnce
      <3> QED BY <3>1, <3>2
    <2> QED BY <1>t, <2>1, <2>2, <2>3, <2>4, <2>5 DEF SentOnce
  <1>11. CASE Disconnect
    <2>1. wire' = <<>> /\ stream' = "none"
      BY <1>11 DEF Disconnect
    <2> QED BY <2>1, EmptyRange DEF SentOnce, OnceEach
  <1>12. CASE (\E e \in Events : WriteLine(e)) \/ UNCHANGED logVars
    BY <1>2, <1>12 DEF WriteLine, logVars, fileVars, serverVars, viewerVars
  <1> QED BY <1>1, <1>3, <1>4, <1>5, <1>6, <1>7, <1>8, <1>9, <1>10, <1>11, <1>12
          DEF LogNext, StreamProgress

(* So no event is displayed again.                                         *)
LEMMA RepeatedKept ==
  ASSUME LogInv, [LogNext]_logVars
  PROVE  NoEventTwice'
  <1>1. CASE Display
    BY <1>1, DisplayTakes DEF LogInv, NoEventTwice
  <1>2. (\E e \in Events : WriteLine(e)) \/ Broadcast \/ StreamProgress \/ EndOfStream \/ Connect \/ Reject
          \/ Disconnect \/ UNCHANGED logVars => repeated' = repeated
    BY DEF Broadcast, WriteLine, StreamProgress, Subscribe, ListPaths, ReadActive, ReadArchive, ReadFails,
           HistoryRead, SendHistory, GoLive, Receive, Lag, EndOfStream, Connect, Reject, Disconnect, logVars,
           viewerVars, noteVars
  <1> QED BY <1>1, <1>2 DEF LogInv, NoEventTwice, LogNext

(* What the server remembers it has sent or will send.                     *)
LEMMA SeenKept ==
  ASSUME LogInv, [LogNext]_logVars
  PROVE  SeenIsSent'
  <1>t. LogTypeOK /\ Stages /\ SeenIsSent
    BY DEF LogInv
  <1>w. wire \in Seq(Int) /\ history \in Seq(Events) /\ position \in Nat /\ serverSeen \subseteq Events
    BY <1>t, OnTheWire, LogNumbers DEF LogTypeOK
  <1>1. CASE stream' \notin {"history", "live", "ended"}
    BY <1>1 DEF SeenIsSent
  <1>2. CASE UNCHANGED <<shown, wire, history, serverSeen>> /\ stream \in {"history", "live", "ended"}
    BY <1>t, <1>2 DEF SeenIsSent
  <1>3. CASE HistoryRead
    BY <1>3 DEF HistoryRead, SeenIsSent
  <1>4. CASE SendHistory
    <2>1. /\ history # <<>> /\ wire' = Append(wire, Head(history)) /\ history' = Tail(history)
          /\ stream = "history" /\ UNCHANGED <<shown, serverSeen>>
      BY <1>4 DEF SendHistory, viewerVars
    <2>2. Range(history) = {Head(history)} \cup Range(history') /\ Head(history) \in Int
      <3>1. Range(history) = {Head(history)} \cup Range(history') /\ Head(history) \in Events
        BY <1>w, <2>1, RangeOfTail
      <3>2. Events \subseteq Int
        BY DEF Events
      <3> QED BY <3>1, <3>2
    <2>3. Range(wire') = Range(wire) \cup {Head(history)}
      BY <1>w, <2>1, <2>2, RangeOfAppend
    <2> QED BY <1>t, <2>1, <2>2, <2>3 DEF SeenIsSent
  <1>5. CASE Receive
    <2>1. /\ serverSeen' = serverSeen \cup {position + 1} /\ stream = "live"
          /\ UNCHANGED <<shown, history>>
          /\ wire' = IF position + 1 \in serverSeen THEN wire ELSE Append(wire, position + 1)
      BY <1>5 DEF Receive, Repeated, viewerVars
    <2>2. Range(Append(wire, position + 1)) = Range(wire) \cup {position + 1}
      BY <1>w, RangeOfAppend
    <2> QED BY <1>t, <2>1, <2>2 DEF SeenIsSent
  <1>6. CASE Lag
    <2>1. wire' = Append(wire, -Lost) /\ stream = "live" /\ UNCHANGED <<shown, history, serverSeen>>
      BY <1>6 DEF Lag, viewerVars
    <2>2. -Lost \in Int
      BY <1>t, LogNumbers DEF Lost
    <2>3. Range(wire') = Range(wire) \cup {-Lost}
      BY <1>w, <2>1, <2>2, RangeOfAppend
    <2> QED BY <1>t, <2>1, <2>3 DEF SeenIsSent
  <1>7. CASE Display
    <2>1. stream \in {"history", "live", "ended"} /\ UNCHANGED <<stream, serverSeen, history>>
      BY <1>7, DisplayTakes DEF Display, serverVars
    <2>2. \A e \in shown \cup Range(wire) : e \in Events => e \in shown' \cup Range(wire')
      <3>1. \A e \in Events : ~(e < 0)
        BY DEF Events
      <3> QED BY <1>7, <3>1, DisplayTakes
    <2> QED BY <1>t, <1>w, <2>1, <2>2 DEF SeenIsSent
  <1>8. CASE Broadcast \/ (\E e \in Events : WriteLine(e)) \/ GoLive \/ EndOfStream \/ UNCHANGED logVars
    <2>1. UNCHANGED <<shown, wire, history, serverSeen>>
          /\ (stream' \in {"history", "live", "ended"} => stream \in {"history", "live", "ended"})
      BY <1>8 DEF Broadcast, WriteLine, GoLive, EndOfStream, logVars, serverVars, viewerVars
    <2> QED BY <1>1, <1>2, <2>1
  <1>9. CASE Subscribe \/ ListPaths \/ ReadActive \/ ReadArchive \/ ReadFails \/ Connect \/ Reject \/ Disconnect
    BY <1>t, <1>1, <1>9 DEF Subscribe, ListPaths, ReadActive, ReadArchive, ReadFails, Connect, Reject, Disconnect,
                            Stages, serverVars
  <1> QED BY <1>3, <1>4, <1>5, <1>6, <1>7, <1>8, <1>9 DEF LogNext, StreamProgress
-----------------------------------------------------------------------------
(* What the notices announce.                                              *)

(* What the entries of a connection announce.                              *)
Notices(s) == [i \in DOMAIN s |-> Notice(s[i])]

(* The events since the subscription that the client neither has nor gets. *)
Missing == {e \in (subscribed + 1)..position : e \notin shown \cup Range(wire)}

(* They are as many numbers as entries, and none is positive.              *)
LEMMA NoticesOf ==
  ASSUME NEW s \in Seq(Int)
  PROVE  /\ Notices(s) \in Seq(Int) /\ Len(Notices(s)) = Len(s)
         /\ \A i \in 1..Len(s) : Notices(s)[i] = Notice(s[i]) /\ Notices(s)[i] <= 0
  <1>1. \A i \in 1..Len(s) : s[i] \in Int /\ Notice(s[i]) \in Int /\ Notice(s[i]) <= 0
    BY DEF Notice
  <1>2. Notices(s) = [i \in 1..Len(s) |-> Notice(s[i])]
    BY DEF Notices
  <1>3. Notices(s) \in [1..Len(s) -> Int] /\ Len(s) \in Nat
    BY <1>1, <1>2
  <1>4. Notices(s) \in Seq(Int)
    BY <1>3, SeqDef
  <1>5. Len(Notices(s)) = Len(s)
    BY <1>3, <1>4, LenProperties
  <1> QED BY <1>1, <1>2, <1>4, <1>5

(* One more entry.                                                         *)
LEMMA NoticesAppend ==
  ASSUME NEW s \in Seq(Int), NEW x \in Int
  PROVE  Total(Notices(Append(s, x))) = Total(Notices(s)) + Notice(x)
  <1> DEFINE t == Append(s, x)
             u == Append(Notices(s), Notice(x))
  <1>1. /\ t \in Seq(Int) /\ Len(t) = Len(s) + 1 /\ Len(s) \in Nat /\ t[Len(s) + 1] = x
        /\ \A i \in 1..Len(s) : t[i] = s[i]
    OBVIOUS
  <1>2. Notice(x) \in Int
    BY DEF Notice
  <1>3. /\ u \in Seq(Int) /\ Len(u) = Len(s) + 1 /\ u[Len(s) + 1] = Notice(x)
        /\ \A i \in 1..Len(s) : u[i] = Notice(s[i])
    BY <1>2, NoticesOf
  <1> HIDE DEF t, u
  <1>4. /\ Notices(t) \in Seq(Int) /\ Len(Notices(t)) = Len(t)
        /\ \A i \in 1..Len(t) : Notices(t)[i] = Notice(t[i])
    BY <1>1, NoticesOf
  <1>5. \A i \in 1..Len(t) : Notices(t)[i] = u[i]
    <2> TAKE i \in 1..Len(t)
    <2>1. i \in 1..Len(s) \/ i = Len(s) + 1
      BY <1>1
    <2>2. Notices(t)[i] = Notice(t[i])
      BY <1>4
    <2> QED BY <1>1, <1>3, <2>1, <2>2
  <1> DEFINE v == Notices(t)
  <1>6. v \in Seq(Int) /\ Len(v) = Len(u) /\ \A i \in 1..Len(v) : v[i] = u[i]
    BY <1>1, <1>3, <1>4, <1>5
  <1> HIDE DEF v
  <1>7. v = u
    BY <1>3, <1>6, SeqEqual
  <1>8. Total(u) = Total(Notices(s)) + Notice(x)
    BY <1>2, NoticesOf, TotalAppend DEF u
  <1> QED BY <1>7, <1>8 DEF t, v

(* The first entry is taken.                                               *)
LEMMA NoticesTail ==
  ASSUME NEW s \in Seq(Int), s # <<>>
  PROVE  Total(Notices(s)) = Notice(Head(s)) + Total(Notices(Tail(s)))
  <1> DEFINE t == Tail(s)
             u == Notices(s)
             w == Tail(u)
  <1>1. /\ t \in Seq(Int) /\ Len(t) = Len(s) - 1 /\ Len(s) \in Nat /\ Len(s) > 0 /\ Head(s) = s[1]
        /\ \A i \in 1..Len(t) : t[i] = s[i + 1]
    OBVIOUS
  <1>2. u \in Seq(Int) /\ Len(u) = Len(s) /\ \A i \in 1..Len(s) : u[i] = Notice(s[i])
    BY NoticesOf
  <1> HIDE DEF t, u
  <1>3. /\ u # <<>> /\ w \in Seq(Int) /\ Len(w) = Len(u) - 1 /\ Head(u) = u[1]
        /\ \A i \in 1..Len(w) : w[i] = u[i + 1]
    BY <1>1, <1>2
  <1> HIDE DEF w
  <1> DEFINE v == Notices(t)
  <1>4. v \in Seq(Int) /\ Len(v) = Len(t) /\ \A i \in 1..Len(t) : v[i] = Notice(t[i])
    BY <1>1, NoticesOf
  <1> HIDE DEF v
  <1>5. Len(v) = Len(w) /\ \A i \in 1..Len(v) : v[i] = w[i]
    <2>1. Len(v) = Len(w)
      BY <1>1, <1>2, <1>3, <1>4
    <2>2. ASSUME NEW i \in 1..Len(v) PROVE v[i] = w[i]
      <3>1. i \in 1..Len(t) /\ i \in 1..Len(w) /\ i + 1 \in 1..Len(s)
        BY <1>1, <1>4, <2>1
      <3>2. v[i] = Notice(t[i]) /\ t[i] = s[i + 1] /\ w[i] = u[i + 1] /\ u[i + 1] = Notice(s[i + 1])
        BY <1>1, <1>2, <1>3, <1>4, <3>1
      <3> QED BY <3>2
    <2> QED BY <2>1, <2>2
  <1>6. v = w
    BY <1>3, <1>4, <1>5, SeqEqual
  <1>7. Total(u) = Head(u) + Total(w)
    BY <1>2, <1>3, TotalTail DEF w
  <1>8. Head(u) = Notice(Head(s))
    BY <1>1, <1>2, <1>3
  <1> QED BY <1>6, <1>7, <1>8 DEF t, u, v

(* Announcements add up to a number that is not positive.                  *)
LEMMA DebtIsNumber ==
  ASSUME NEW s \in Seq(Int)
  PROVE  Total(Notices(s)) \in Int /\ Total(Notices(s)) <= 0
  <1> DEFINE u == Notices(s)
  <1>1. u \in Seq(Int) /\ \A i \in 1..Len(u) : u[i] <= 0
    BY NoticesOf
  <1> HIDE DEF u
  <1>2. Total(u) \in Int /\ Total(u) <= 0
    BY <1>1, TotalType, TotalOfDebts
  <1> QED BY <1>2 DEF u

(* Finitely many events are missing.                                       *)
LEMMA MissingIsFinite ==
  ASSUME LogTypeOK
  PROVE  /\ IsFiniteSet(Missing) /\ Cardinality(Missing) \in Nat
         /\ \A S \in SUBSET Missing : Cardinality(S) <= Cardinality(Missing)
         /\ Missing \subseteq (subscribed + 1)..position
  <1>1. subscribed + 1 \in Int /\ position \in Int
    BY LogNumbers
  <1>2. IsFiniteSet((subscribed + 1)..position)
    BY <1>1, FS_Interval
  <1>3. Missing \subseteq (subscribed + 1)..position
    BY DEF Missing
  <1> QED BY <1>2, <1>3, FS_Subset, FS_CardinalityType

(* What a receiver jumps over it announces, and a notice that is displayed *)
(* is counted instead of being on its way.                                 *)
LEMMA AnnouncedKept ==
  ASSUME LogInv, [LogNext]_logVars
  PROVE  SkipsAreAnnounced'
  <1>t. LogTypeOK /\ Stages /\ SeenIsSent /\ SkipsAreAnnounced /\ SentOnce
    BY DEF LogInv
  <1>s. LogTypeOK'
    BY LogTypeKept
  <1>n. /\ subscribed \in Nat /\ position \in Nat /\ sent \in Nat /\ wire \in Seq(Int)
        /\ ChannelCapacity \in Nat
    BY <1>t, LogNumbers, OnTheWire
  <1>u. wire' \in Seq(Int) /\ skipped' \in Nat /\ skipped \in Nat
    <2> DEFINE W == (-MaxEvents)..MaxEvents
    <2>1. W \subseteq Int
      BY <1>t, LogNumbers
    <2>2. wire' \in Seq(W) /\ skipped' \in Nat
      BY <1>s DEF LogTypeOK
    <2> HIDE DEF W
    <2>3. wire' \in Seq(Int)
      BY <2>1, <2>2, SeqMonotonic
    <2> QED BY <1>t, <2>2, <2>3 DEF LogTypeOK
  <1>a. /\ Announced \in Nat /\ Announced = skipped - Total(Notices(wire))
        /\ Announced' \in Nat /\ Announced' = skipped' - Total(Notices(wire'))
        /\ skipped \in Nat /\ Total(Notices(wire)) \in Int
    <2>1. Announced = skipped - Total(Notices(wire)) /\ Announced' = skipped' - Total(Notices(wire'))
      <3>1. \A s : Owed(s) = Total(Notices(s))
        BY DEF Owed, Notices, Total
      <3>2. Announced = skipped - Owed(wire) /\ Announced' = skipped' - Owed(wire')
        BY DEF Announced
      <3> QED BY <3>1, <3>2
    <2>2. /\ Total(Notices(wire)) \in Int /\ Total(Notices(wire)) <= 0
          /\ Total(Notices(wire')) \in Int /\ Total(Notices(wire')) <= 0
      BY <1>n, <1>u, DebtIsNumber
    <2> QED BY <1>u, <2>1, <2>2
  <1>m. SkipsAreAnnounced <=> (stream \in {"live", "ended"} => Cardinality(Missing) <= Announced)
    BY DEF SkipsAreAnnounced, Missing
  <1>g. SkipsAreAnnounced' <=> (stream' \in {"live", "ended"} => Cardinality(Missing') <= Announced')
    BY DEF SkipsAreAnnounced, Missing
  <1>c. IsFiniteSet(Missing) /\ Cardinality(Missing) \in Nat
    BY <1>t, MissingIsFinite
  <1>1. ASSUME stream \in {"live", "ended"}, Missing' \subseteq Missing, Announced' = Announced
        PROVE  SkipsAreAnnounced'
    <2>1. Cardinality(Missing') <= Cardinality(Missing) /\ Cardinality(Missing') \in Nat
      BY <1>c, <1>1, FS_Subset, FS_CardinalityType
    <2> QED BY <1>t, <1>a, <1>m, <1>g, <1>c, <1>1, <2>1
  <1>2. CASE UNCHANGED <<shown, wire, skipped, subscribed, position>> /\ stream \in {"live", "ended"}
    <2>1. Missing' = Missing /\ Announced' = Announced
      BY <1>a, <1>2 DEF Missing
    <2> QED BY <1>1, <1>2, <2>1
  <1>3. CASE stream' \notin {"live", "ended"}
    BY <1>3 DEF SkipsAreAnnounced
  <1>4. CASE GoLive
    <2>1. position' = position /\ subscribed' = subscribed /\ position = subscribed
      BY <1>t, <1>4 DEF GoLive, LiveFrom, noteVars, Stages
    <2>2. Missing' = {}
      BY <1>n, <2>1 DEF Missing
    <2>3. Cardinality(Missing') = 0
      BY <2>2, FS_EmptySet
    <2> QED BY <1>a, <1>g, <2>3
  <1>5. CASE Receive
    <2> DEFINE x == position + 1
    <2>1. /\ stream = "live" /\ position' = x /\ x \in Int /\ x > 0
          /\ wire' = IF x \in serverSeen THEN wire ELSE Append(wire, x)
          /\ UNCHANGED <<shown, subscribed, skipped>>
      BY <1>n, <1>5 DEF Receive, Repeated, viewerVars, noteVars
    <2>2. x \in shown \cup Range(wire') /\ Range(wire) \subseteq Range(wire')
      <3>1. CASE x \in serverSeen
        <4>1. history = <<>> /\ serverSeen \subseteq shown \cup Range(wire) \cup Range(history)
          BY <1>t, <2>1 DEF Stages, SeenIsSent
        <4> QED BY <2>1, <3>1, <4>1, EmptyRange
      <3>2. CASE x \notin serverSeen
        BY <1>n, <2>1, <3>2, RangeOfAppend
      <3> QED BY <3>1, <3>2
    <2>3. Missing' \subseteq Missing
      <3>1. \A e \in (subscribed + 1)..x : e \in (subscribed + 1)..position \/ e = x
        BY <1>n
      <3> HIDE DEF x
      <3> QED BY <2>1, <2>2, <3>1 DEF Missing
    <2>4. Total(Notices(wire')) = Total(Notices(wire))
      <3>1. Total(Notices(Append(wire, x))) = Total(Notices(wire)) + Notice(x) /\ Notice(x) = 0
        BY <1>n, <2>1, NoticesAppend DEF Notice
      <3> QED BY <1>a, <2>1, <3>1
    <2> QED BY <1>1, <1>a, <2>1, <2>3, <2>4
  <1>6. CASE Lag
    <2> DEFINE x == -Lost
               jumped == (position + 1)..(position + Lost)
    <2>1. /\ stream = "live" /\ position' = position + Lost /\ Lost \in Nat /\ Lost > 0
          /\ wire' = Append(wire, x) /\ UNCHANGED <<shown, subscribed, skipped>> /\ x \in Int /\ x < 0
      BY <1>n, <1>6 DEF Lag, Lost, viewerVars, noteVars
    <2>2. Total(Notices(wire')) = Total(Notices(wire)) + x
      <3>1. Notice(x) = x
        BY <2>1 DEF Notice
      <3> HIDE DEF x
      <3> QED BY <1>n, <2>1, <3>1, NoticesAppend
    <2>3. Announced' = Announced + Lost
      BY <1>a, <2>1, <2>2
    <2>4. IsFiniteSet(jumped) /\ Cardinality(jumped) = Lost
      <3>1. position + 1 \in Int /\ position + Lost \in Int /\ position + 1 <= position + Lost
            /\ (position + Lost) - (position + 1) + 1 = Lost
        BY <1>n, <2>1
      <3> QED BY <3>1, FS_Interval
    <2>5. Missing' \subseteq Missing \cup jumped
      <3>1. Range(wire) \subseteq Range(wire')
        <4> HIDE DEF x
        <4> QED BY <1>n, <2>1, RangeOfAppend
      <3>2. \A e \in (subscribed + 1)..(position + Lost) : e \in (subscribed + 1)..position \/ e \in jumped
        BY <1>n, <2>1
      <3> HIDE DEF jumped
      <3> QED BY <2>1, <3>1, <3>2 DEF Missing
    <2> HIDE DEF jumped
    <2>6. Cardinality(Missing') <= Cardinality(Missing) + Lost /\ Cardinality(Missing') \in Nat
      <3>1. /\ IsFiniteSet(Missing \cup jumped) /\ Cardinality(Missing \cup jumped) \in Nat
            /\ Cardinality(Missing \cap jumped) \in Nat
            /\ Cardinality(Missing \cup jumped) = Cardinality(Missing) + Cardinality(jumped) - Cardinality(Missing \cap jumped)
        BY <1>c, <2>4, FS_Union, FS_CardinalityType, FS_Intersection
      <3>2. Cardinality(Missing') <= Cardinality(Missing \cup jumped) /\ Cardinality(Missing') \in Nat
        BY <2>5, <3>1, FS_Subset, FS_CardinalityType
      <3> QED BY <1>c, <2>1, <2>4, <3>1, <3>2
    <2> QED BY <1>t, <1>a, <1>m, <1>g, <1>c, <2>1, <2>3, <2>6
  <1>7. CASE Display
    <2>1. /\ stream' = stream /\ UNCHANGED <<position, subscribed>> /\ wire # <<>> /\ wire' = Tail(wire)
          /\ Head(wire) \in Int
      BY <1>7, DisplayTakes DEF Display, serverVars
    <2>2. CASE stream \notin {"live", "ended"}
      BY <1>3, <2>1, <2>2
    <2>3. CASE stream \in {"live", "ended"}
      <3>1. Missing' \subseteq Missing
        <4>1. \A e \in (subscribed + 1)..position : e > 0
          BY <1>n
        <4>2. \A e \in shown \cup Range(wire) : e \in shown' \cup Range(wire') \/ e < 0
          BY <1>7, DisplayTakes
        <4>3. \A e \in (subscribed + 1)..position : ~(e < 0)
          BY <1>n
        <4> QED BY <2>1, <4>2, <4>3 DEF Missing
      <3>2. Total(Notices(wire)) = Notice(Head(wire)) + Total(Notices(wire'))
        BY <1>n, <2>1, NoticesTail
      <3>3. Total(Notices(wire')) \in Int
        <4>1. wire' \in Seq(Int)
          BY <1>7, DisplayTakes
        <4> QED BY <4>1, NoticesOf, TotalType
      <3>4. Announced' = Announced
        <4>1. CASE Head(wire) < 0
          <5>1. skipped' = skipped - Head(wire) /\ Notice(Head(wire)) = Head(wire)
            BY <1>7, <4>1 DEF Display, Notice
          <5> QED BY <1>a, <2>1, <3>2, <3>3, <5>1
        <4>2. CASE ~(Head(wire) < 0)
          <5>1. skipped' = skipped /\ Notice(Head(wire)) = 0
            BY <1>7, <4>2 DEF Display, Notice
          <5> QED BY <1>a, <2>1, <3>2, <3>3, <5>1
        <4> QED BY <4>1, <4>2
      <3> QED BY <1>1, <2>3, <3>1, <3>4
    <2> QED BY <2>2, <2>3
  <1>8. CASE Broadcast \/ (\E e \in Events : WriteLine(e)) \/ EndOfStream \/ UNCHANGED logVars
    <2>1. UNCHANGED <<shown, wire, skipped, subscribed, position>>
          /\ (stream' \in {"live", "ended"} => stream \in {"live", "ended"})
      BY <1>8 DEF Broadcast, WriteLine, EndOfStream, logVars, serverVars, viewerVars, noteVars
    <2> QED BY <1>2, <1>3, <2>1
  <1>9. CASE Subscribe \/ ListPaths \/ ReadActive \/ ReadArchive \/ ReadFails \/ HistoryRead
               \/ SendHistory \/ Connect \/ Reject \/ Disconnect
    <2>1. stream' \notin {"live", "ended"}
      BY <1>t, <1>9 DEF Subscribe, ListPaths, ReadActive, ReadArchive, ReadFails, HistoryRead, SendHistory,
                        Connect, Reject, Disconnect, Stages, serverVars
    <2> QED BY <1>3, <2>1
  <1> QED BY <1>4, <1>5, <1>6, <1>7, <1>8, <1>9 DEF LogNext, StreamProgress
-----------------------------------------------------------------------------
(* What is read is what the disk ends with.                                *)

(* What is still to read without the newest file.                          *)
Older == [n \in 1..(Head(paths) - 1) |-> IF n \in Range(Tail(paths)) THEN archives[n] ELSE <<>>]

(* The files still to read are the newest of them and those before it.     *)
LEMMA UnreadFiles ==
  ASSUME LogInv, paths # <<>>
  PROVE  /\ Head(paths) \in 1..Len(archives) /\ Head(paths) - 1 \in Nat
         /\ StillToRead \in [1..Head(paths) -> Seq(Events)]
         /\ Older \in [1..(Head(paths) - 1) -> Seq(Events)]
         /\ FlattenSeq(Older) \in Seq(Events)
         /\ FlattenSeq(StillToRead) = FlattenSeq(Older) \o archives[Head(paths)]
  <1>t. LogTypeOK
    BY DEF LogInv
  <1>n. Len(archives) \in Nat
    BY <1>t, LogNumbers
  <1> DEFINE m == Head(paths)
  <1>1. /\ m \in 1..Len(archives) /\ m \in Range(paths)
        /\ Range(Tail(paths)) \subseteq Range(paths) \cap 1..(m - 1)
        /\ \A n \in 1..(m - 1) : n \in Range(paths) => n \in Range(Tail(paths))
    BY NextFile
  <1>2. m - 1 \in Nat /\ (m - 1) + 1 = m /\ \A n \in 1..m : n \in 1..Len(archives)
    BY <1>n, <1>1
  <1>e. <<>> \in Seq(Events)
    OBVIOUS
  <1>3. \A n \in 1..m : archives[n] \in Seq(Events)
    BY <1>t, <1>2, FileLinesType
  <1> HIDE DEF m
  <1>4. StillToRead \in [1..m -> Seq(Events)] /\ DOMAIN StillToRead = 1..m
        /\ \A n \in 1..m : StillToRead[n] = IF n \in Range(paths) THEN archives[n] ELSE <<>>
    BY <1>e, <1>3 DEF StillToRead, m
  <1>5. Older \in [1..(m - 1) -> Seq(Events)]
    <2>1. \A n \in 1..(m - 1) : archives[n] \in Seq(Events)
      BY <1>2, <1>3
    <2> QED BY <1>e, <2>1 DEF Older, m
  <1>6. Older = [n \in 1..(m - 1) |-> StillToRead[n]]
    <2>1. \A n \in 1..(m - 1) : n \in 1..m
      BY <1>2
    <2>2. \A n \in 1..(m - 1) : StillToRead[n] = IF n \in Range(Tail(paths)) THEN archives[n] ELSE <<>>
      BY <1>1, <1>4, <2>1
    <2> QED BY <2>2 DEF Older, m
  <1>7. FlattenSeq(Older) \in Seq(Events)
    <2> DEFINE k == m - 1
               older == Older
    <2>1. k \in Nat /\ older \in [1..k -> Seq(Events)]
      BY <1>2, <1>5
    <2> HIDE DEF k, older
    <2>2. FlattenSeq(older) \in Seq(Events)
      BY <2>1, FlattenedType
    <2> QED BY <2>2 DEF older
  <1>8. FlattenSeq(StillToRead) = FlattenSeq(Older) \o StillToRead[m]
    <2> DEFINE k == m - 1
               s == StillToRead
    <2>1. k \in Nat /\ s \in [1..(k + 1) -> Seq(Events)] /\ k + 1 = m
      BY <1>2, <1>4
    <2> HIDE DEF k, s
    <2>2. FlattenSeq(s) = FlattenSeq([i \in 1..k |-> s[i]]) \o s[k + 1]
      BY <2>1, FlattenedLast
    <2> QED BY <1>6, <2>1, <2>2 DEF k, s
  <1>9. StillToRead[m] = archives[m]
    <2>1. m \in 1..m
      BY <1>1
    <2> QED BY <1>1, <1>4, <2>1
  <1> QED BY <1>1, <1>2, <1>4, <1>5, <1>7, <1>8, <1>9 DEF m

(* The next file is right before what was read.                            *)
LEMMA NextOnDisk ==
  ASSUME LogInv, stream = "archives", ~rotated, ~cut, paths # <<>>, Exists(Head(paths)),
         Len(history) < Limit
  PROVE  onDisk = (FlattenSeq(Older) \o FileLines(Head(paths))) \o history
  <1>1. onDisk = FlattenSeq(StillToRead) \o history
    BY DEF LogInv, NothingLeftOut
  <1>2. FileLines(Head(paths)) = archives[Head(paths)]
    BY DEF FileLines
  <1> QED BY <1>1, <1>2, UnreadFiles

(* All of the files that are listed, when none of them rotated meanwhile.  *)
LEMMA AllListed ==
  ASSUME LogInv, paths = Listed, paths # <<>>
  PROVE  StillToRead = [n \in 1..Len(archives) |-> FileLines(n)]
  <1>t. LogTypeOK
    BY DEF LogInv
  <1>n. Len(archives) \in Nat /\ MaxArchives \in Nat
    BY <1>t, LogNumbers
  <1>1. /\ Listed \in Seq(Nat) /\ Kept \in Nat /\ Kept <= Len(archives) /\ Kept <= MaxArchives
        /\ Len(Listed) = Kept
        /\ \A i \in 1..Kept : Listed[i] = Len(archives) + 1 - i
    BY <1>t, ListedType
  <1>2. Kept > 0 /\ Head(paths) = Len(archives)
    BY <1>1, <1>n
  <1>3. ASSUME NEW n \in 1..Len(archives) PROVE n \in Range(paths) <=> Exists(n)
    <2>1. Kept = MaxArchives \/ Kept = Len(archives)
      BY <1>n DEF Kept, Least
    <2>2. ASSUME n \in Range(paths) PROVE Exists(n)
      <3>1. PICK i \in 1..Kept : paths[i] = n
        BY <1>1, <2>2, RangeInSet
      <3>2. n = Len(archives) + 1 - i
        BY <1>1, <3>1
      <3> QED BY <1>n, <1>1, <3>1, <3>2 DEF Exists
    <2>3. ASSUME Exists(n) PROVE n \in Range(paths)
      <3> DEFINE i == Len(archives) + 1 - n
      <3>1. i \in 1..Kept /\ n = Len(archives) + 1 - i
        BY <1>n, <1>1, <2>1, <2>3 DEF Exists
      <3> HIDE DEF i
      <3>2. paths[i] = n
        BY <1>1, <3>1
      <3>3. i \in 1..Len(paths) /\ paths \in Seq(Nat)
        BY <1>1, <3>1
      <3> QED BY <3>2, <3>3, RangeInSet
    <2> QED BY <2>2, <2>3
  <1> QED BY <1>2, <1>3 DEF StillToRead, FileLines

(* A step that leaves the reading of the files alone.                      *)
LEMMA ReadingLeftAlone ==
  ASSUME LogInv, UNCHANGED <<stream, rotated, cut, paths, history, onDisk, lines>>,
         archives' = archives \/ archives' = Append(archives, activeFile)
  PROVE  HistoryHasNoHole' /\ NothingLeftOut'
  <1>t. LogTypeOK /\ NothingLeftOut /\ HistoryHasNoHole
    BY DEF LogInv
  <1>n. Len(archives) \in Nat /\ MaxArchives \in Nat
    BY <1>t, LogNumbers
  <1>a. archives \in Seq(Seq(Events)) /\ activeFile \in Seq(Events)
    BY <1>t DEF LogTypeOK
  <1>1. HistoryHasNoHole'
    BY <1>t DEF HistoryHasNoHole
  <1>2. ASSUME paths # <<>>, Exists(Head(paths))' PROVE Exists(Head(paths)) /\ StillToRead' = StillToRead
    <2>1. Head(paths) \in 1..Len(archives) /\ \A n \in Range(paths) : n \in 1..Len(archives)
      BY <1>2, NextFile
    <2>2. /\ Len(archives') >= Len(archives) /\ Len(archives') \in Nat
          /\ \A n \in 1..Len(archives) : archives'[n] = archives[n]
      <3>1. CASE archives' = archives
        BY <1>n, <3>1
      <3>2. CASE archives' = Append(archives, activeFile)
        BY <1>a, <3>2
      <3> QED BY <3>1, <3>2
    <2>3. Exists(Head(paths))
      BY <1>n, <1>2, <2>1, <2>2 DEF Exists
    <2>4. \A n \in Range(paths) : archives'[n] = archives[n]
      BY <2>1, <2>2
    <2>5. StillToRead' = StillToRead
      BY <2>4 DEF StillToRead
    <2> QED BY <2>3, <2>5
  <1>3. NothingLeftOut'
    <2> SUFFICES ASSUME stream = "archives", ~rotated, ~cut, paths # <<>>, Exists(Head(paths))',
                        Len(history) < Limit
                 PROVE  onDisk = FlattenSeq(StillToRead') \o history
      BY DEF NothingLeftOut, Limit
    <2>1. Exists(Head(paths)) /\ StillToRead' = StillToRead
      BY <1>2
    <2> QED BY <1>t, <2>1 DEF NothingLeftOut
  <1> QED BY <1>1, <1>3

LEMMA HistoryEndsKept ==
  ASSUME LogInv, [LogNext]_logVars
  PROVE  HistoryHasNoHole' /\ NothingLeftOut'
  <1>t. LogTypeOK /\ Stages /\ PathsDescend /\ HistoryHasNoHole
    BY DEF LogInv
  <1>n. /\ Len(archives) \in Nat /\ Limit \in Nat /\ onDisk \in Seq(Events) /\ history \in Seq(Events)
        /\ Len(history) \in Nat /\ activeFile \in Seq(Events)
    BY <1>t, LogNumbers DEF LogTypeOK, Limit
  <1>1. CASE stream' # "archives"
    BY <1>1 DEF HistoryHasNoHole, NothingLeftOut
  <1>2. CASE (ListPaths /\ Limit = 0) \/ ReadFails
    <2>1. history' = <<>> /\ paths' = <<>> /\ onDisk' = onDisk
      BY <1>t, <1>2 DEF ListPaths, ReadFails, noteVars, Stages
    <2>2. IsSuffix(<<>>, onDisk)
      BY <1>n, EmptySuffix
    <2> QED BY <2>1, <2>2 DEF HistoryHasNoHole, NothingLeftOut
  <1>3. CASE ReadActive
    <2>0. CASE cut'
      BY <2>0 DEF HistoryHasNoHole, NothingLeftOut
    <2> SUFFICES ASSUME ~cut' PROVE HistoryHasNoHole' /\ NothingLeftOut'
      BY <2>0
    <2>1. /\ stream = "active" /\ history' = Newest(activeFile, Limit) /\ onDisk' = Disk
          /\ UNCHANGED <<archives, paths, rotated, lines>>
      BY <1>t, <1>3, ActiveRead DEF ReadActive, fileVars, viewerVars
    <2> DEFINE F == FlattenSeq([n \in 1..Len(archives) |-> FileLines(n)])
               r == Newest(activeFile, Limit)
    <2>2. F \in Seq(Events)
      <3> DEFINE s == [n \in 1..Len(archives) |-> FileLines(n)]
                 k == Len(archives)
      <3>1. s \in [1..k -> Seq(Events)] /\ k \in Nat
        BY <1>t, <1>n, FileLinesType
      <3> HIDE DEF s, k
      <3>2. FlattenSeq(s) \in Seq(Events)
        BY <3>1, FlattenedType
      <3> QED BY <3>2 DEF s
    <2>3. r \in Seq(Events) /\ (Len(r) < Limit => r = activeFile)
      BY <1>n, NewestOf
    <2>4. onDisk' = F \o activeFile
      BY <2>1 DEF Disk
    <2> HIDE DEF F, r
    <2>5. IsSuffix(r, F \o activeFile)
      <3> DEFINE h == <<>>
      <3>1. h \in Seq(Events)
        OBVIOUS
      <3> HIDE DEF h
      <3>2. IsSuffix(Newest(activeFile, Limit) \o h, (F \o activeFile) \o h)
        BY <1>n, <2>2, <3>1, NewestIsSuffix
      <3>3. r \o h = r /\ (F \o activeFile) \o h = F \o activeFile
        BY <1>n, <2>2, <2>3, ConcatEmptySeq, ConcatProperties DEF h
      <3> QED BY <3>2, <3>3 DEF r
    <2>6. HistoryHasNoHole'
      BY <2>1, <2>4, <2>5 DEF HistoryHasNoHole, r
    <2>7. ASSUME ~rotated, paths # <<>>, Len(history') < Limit
          PROVE  onDisk' = FlattenSeq(StillToRead) \o history'
      <3>1. paths = Listed
        BY <1>t, <2>1, <2>7 DEF PathsDescend
      <3>2. StillToRead = [n \in 1..Len(archives) |-> FileLines(n)]
        BY <2>7, <3>1, AllListed
      <3>3. history' = activeFile
        BY <2>1, <2>3, <2>7 DEF r
      <3> QED BY <2>4, <3>2, <3>3 DEF F
    <2>8. StillToRead' = StillToRead /\ Limit' = Limit
      BY <2>1 DEF StillToRead, Limit
    <2>9. NothingLeftOut'
      BY <2>1, <2>7, <2>8 DEF NothingLeftOut
    <2> QED BY <2>6, <2>9
  <1>4. CASE ReadArchive
    <2>0. CASE cut'
      BY <2>0 DEF HistoryHasNoHole, NothingLeftOut
    <2> SUFFICES ASSUME ~cut' PROVE HistoryHasNoHole' /\ NothingLeftOut'
      BY <2>0
    <2> DEFINE m == Head(paths)
               f == FileLines(m)
               r == Newest(f, Limit - Len(history))
    <2>1. /\ stream = "archives" /\ paths # <<>> /\ Len(history) < Limit
          /\ history' = r \o history /\ ~cut
          /\ paths' = Tail(paths) /\ UNCHANGED <<archives, rotated, onDisk, lines, stream>>
      BY <1>t, <1>4, ArchiveRead DEF ReadArchive, fileVars, viewerVars
    <2>2. m \in 1..Len(archives) /\ (paths' # <<>> => Head(paths') = m - 1)
      BY <2>1, NextFile
    <2>3. Limit - Len(history) \in Nat
      BY <1>n, <2>1
    <2>4. f \in Seq(Events)
      BY <1>t, <2>2, FileLinesType
    <2>5. r \in Seq(Events) /\ Len(r) \in Nat /\ Len(r) <= Len(f) /\ (Len(r) < Limit - Len(history) => r = f)
      <3> HIDE DEF f
      <3> QED BY <2>3, <2>4, NewestOf
    <2> DEFINE p == FlattenSeq(Older)
    <2>6. p \in Seq(Events)
      BY <2>1, UnreadFiles
    <2>7. ~rotated /\ Exists(m) => onDisk = (p \o f) \o history
      BY <2>1, NextOnDisk
    <2>8. ~Exists(m) => f = <<>>
      BY DEF FileLines
    <2>9. Exists(m - 1) => Exists(m)
      <3>1. m \in Nat /\ MaxArchives \in Nat
        <4>1. m \in 1..Len(archives)
          BY <2>2
        <4>2. MaxArchives \in Nat /\ Len(archives) \in Nat
          BY <1>t, LogNumbers
        <4> HIDE DEF m
        <4> QED BY <4>1, <4>2
      <3> HIDE DEF m
      <3> QED BY <1>n, <3>1 DEF Exists
    <2> HIDE DEF f, r, p
    <2>10. HistoryHasNoHole'
      <3> SUFFICES ASSUME ~rotated PROVE IsSuffix(r \o history, onDisk)
        BY <2>1 DEF HistoryHasNoHole
      <3>1. CASE Exists(m)
        <4>1. IsSuffix(Newest(f, Limit - Len(history)) \o history, (p \o f) \o history)
          BY <1>n, <2>3, <2>4, <2>6, NewestIsSuffix
        <4> QED BY <2>7, <3>1, <4>1 DEF r
      <3>2. CASE ~Exists(m)
        <4>1. Len(r) = 0
          BY <2>5, <2>8, <3>2
        <4>2. r = <<>>
          BY <2>5, <4>1
        <4>3. r \o history = history
          BY <1>n, <4>2, ConcatEmptySeq
        <4> QED BY <1>t, <2>1, <4>3 DEF HistoryHasNoHole
      <3> QED BY <3>1, <3>2
    <2>11. ASSUME ~rotated, paths' # <<>>, Exists(m - 1), Len(history') < Limit
           PROVE  onDisk = p \o history'
      <3>1. Len(history') = Len(r) + Len(history)
        BY <1>n, <2>1, <2>5, ConcatProperties
      <3>2. r = f
        <4> DEFINE a == Len(r)
                   b == Len(history)
                   c == Limit
        <4>1. a \in Nat /\ b \in Nat /\ c \in Nat /\ a + b < c
          BY <1>n, <2>5, <2>11, <3>1
        <4> HIDE DEF a, b, c
        <4>2. a < c - b
          BY <4>1
        <4> QED BY <2>5, <4>2 DEF a, b, c
      <3>3. onDisk = (p \o f) \o history
        BY <2>7, <2>9, <2>11
      <3>4. (p \o f) \o history = p \o (f \o history)
        <4> DEFINE h == history
        <4>1. h \in Seq(Events)
          BY <1>n
        <4> HIDE DEF h
        <4>2. (p \o f) \o h = p \o (f \o h)
          BY <2>4, <2>6, <4>1, ConcatAssociative
        <4> QED BY <4>2 DEF h
      <3> QED BY <2>1, <3>2, <3>3, <3>4
    <2>12. paths' # <<>> => StillToRead' = Older
      BY <2>1, <2>2 DEF StillToRead, Older, m
    <2>13. NothingLeftOut'
      <3> SUFFICES ASSUME ~rotated, paths' # <<>>, Exists(Head(paths))', Len(history') < Limit
                   PROVE  onDisk = FlattenSeq(StillToRead') \o history'
        BY <2>1 DEF NothingLeftOut, Limit
      <3>1. Exists(m - 1)
        BY <2>1, <2>2 DEF Exists
      <3> QED BY <2>11, <2>12, <3>1 DEF p
    <2> QED BY <2>10, <2>13
  <1>5. CASE Broadcast \/ (\E e \in Events : WriteLine(e)) \/ UNCHANGED logVars
    <2>1. CASE stream = "archives"
      <3>1. UNCHANGED <<stream, rotated, cut, paths, history, onDisk, lines>>
            /\ (archives' = archives \/ archives' = Append(archives, activeFile))
        <4>1. CASE Broadcast \/ UNCHANGED logVars
          BY <4>1 DEF Broadcast, logVars, fileVars, serverVars, viewerVars, noteVars
        <4>2. CASE \E e \in Events : WriteLine(e)
          <5>1. rotated \in BOOLEAN
            BY <1>t DEF LogTypeOK
          <5>2. (rotated \/ stream = "active") = rotated
            BY <2>1, <5>1
          <5>3. rotated' = rotated /\ (archives' = archives \/ archives' = Append(archives, activeFile))
            BY <4>2, <5>2 DEF WriteLine
          <5> QED BY <4>2, <5>3 DEF WriteLine, serverVars, viewerVars
        <4> QED BY <1>5, <4>1, <4>2
      <3> QED BY <3>1, ReadingLeftAlone
    <2>2. CASE stream # "archives"
      <3>1. stream' = stream
        BY <1>5 DEF Broadcast, WriteLine, logVars, serverVars
      <3> QED BY <1>1, <2>2, <3>1
    <2> QED BY <2>1, <2>2
  <1>6. CASE Subscribe \/ (ListPaths /\ Limit # 0) \/ HistoryRead \/ SendHistory \/ GoLive \/ Receive \/ Lag
               \/ EndOfStream \/ Connect \/ Reject \/ Display \/ Disconnect
    <2>1. wire # <<>> => stream # "archives"
      BY <1>t DEF Stages
    <2>2. stream' # "archives"
      BY <1>t, <1>6, <2>1 DEF Subscribe, ListPaths, HistoryRead, SendHistory, GoLive, Receive, Lag,
         EndOfStream, Connect, Reject, Display, Disconnect, Stages, serverVars
    <2> QED BY <1>1, <2>2
  <1> QED BY <1>2, <1>3, <1>4, <1>5, <1>6 DEF LogNext, StreamProgress
-----------------------------------------------------------------------------
(* The log stream.                                                         *)

(* It holds before anything was logged.                                    *)
LEMMA LogBegins == LogInit => LogInv
  <1> SUFFICES ASSUME LogInit PROVE LogInv
    OBVIOUS
  <1>1. /\ sent = 0 /\ unwritten = {} /\ activeFile = <<>> /\ archives = <<>>
        /\ stream = "none" /\ position = 0 /\ paths = <<>> /\ history = <<>>
        /\ serverSeen = {} /\ wire = <<>> /\ viewer = "connecting" /\ follow \in BOOLEAN
        /\ lines = Lines /\ clientSeen = {} /\ connections = 0 /\ shown = {} /\ repeated = {}
        /\ skipped = 0 /\ subscribed = 0 /\ onDisk = <<>> /\ rotated = FALSE /\ cut = FALSE
    BY DEF LogInit
  <1>2. LogTypeOK
    <2>1. /\ MaxEvents \in Nat /\ MaxConnections \in Nat /\ SeenLimit \in Nat
      BY LogAssumption
    <2>2. Cardinality({}) = 0
      BY FS_EmptySet
    <2>3. \A S : <<>> \in Seq(S)
      OBVIOUS
    <2>4. /\ sent \in 0..MaxEvents /\ unwritten \subseteq 1..sent /\ position \in 0..sent
          /\ subscribed \in 0..sent /\ connections \in 0..MaxConnections /\ skipped \in Nat
          /\ Cardinality(clientSeen) <= SeenLimit
      BY <1>1, <2>1, <2>2
    <2>5. /\ activeFile \in Seq(Events) /\ archives \in Seq(Seq(Events)) /\ paths \in Seq(Nat)
          /\ history \in Seq(Events) /\ wire \in Seq((-MaxEvents)..MaxEvents) /\ onDisk \in Seq(Events)
      BY <1>1, <2>3
    <2>6. clientSeen \subseteq Events /\ shown \subseteq Events /\ repeated \subseteq shown
          /\ serverSeen \subseteq Events
      BY <1>1
    <2> QED BY <1>1, <2>4, <2>5, <2>6 DEF LogTypeOK
  <1>3. LinesAreInOnePlace
    <2>1. Len(Files) = 1 /\ Files[1] = <<>>
      BY <1>1 DEF Files
    <2>2. \A m \in 1..1 : m = 1
      OBVIOUS
    <2> QED BY <2>1, <2>2, EmptyRange DEF LinesAreInOnePlace
  <1>4. Stages /\ ShownBefore /\ PathsDescend
    BY <1>1 DEF Stages, ShownBefore, PathsDescend
  <1>5. HistoryIsNew /\ SentOnce /\ NoEventTwice
    BY <1>1, EmptyRange DEF HistoryIsNew, SentOnce, OnceEach, NoEventTwice
  <1>6. SeenIsSent /\ SkipsAreAnnounced /\ HistoryHasNoHole /\ NothingLeftOut
    BY <1>1 DEF SeenIsSent, SkipsAreAnnounced, HistoryHasNoHole, NothingLeftOut
  <1> QED BY <1>2, <1>3, <1>4, <1>5, <1>6 DEF LogInv

(* Every step keeps it.                                                    *)
LEMMA LogStep == LogInv /\ [LogNext]_logVars => LogInv'
  <1> SUFFICES ASSUME LogInv, [LogNext]_logVars PROVE LogInv'
    OBVIOUS
  <1>1. LogTypeOK' /\ LinesAreInOnePlace' /\ Stages' /\ ShownBefore' /\ PathsDescend'
    BY LogTypeKept, LinesKept, StagesKept, ShownKept, PathsKept
  <1>2. HistoryIsNew' /\ SentOnce' /\ NoEventTwice' /\ SeenIsSent'
    BY HistoryKept, SentKept, RepeatedKept, SeenKept
  <1>3. SkipsAreAnnounced' /\ HistoryHasNoHole' /\ NothingLeftOut'
    BY AnnouncedKept, HistoryEndsKept
  <1> QED BY <1>1, <1>2, <1>3 DEF LogInv

(* The inductive invariant holds of the log stream (stream_events,         *)
(* read_recent_events, AdminClient::stream_logs).                          *)
THEOREM LogStreamCorrect == LogSpec => []LogInv
  BY LogBegins, LogStep, PTL DEF LogSpec

(* Type correctness: the receiver is never ahead of the broadcast, and the *)
(* client remembers no more than its limit of events.                      *)
THEOREM LogTypeCorrect == LogSpec => []LogTypeOK
  <1>1. LogInv => LogTypeOK
    BY DEF LogInv
  <1> QED BY <1>1, LogStreamCorrect, PTL

(* stream_events subscribes before it reads the files and drops what its   *)
(* history had, and a follower that connects again asks for no history:    *)
(* however writes, rotations, connections and the client's forgetting      *)
(* interleave, no event is displayed twice.                                *)
THEOREM NoEventIsShownTwice == LogSpec => []NoEventTwice
  <1>1. LogInv => NoEventTwice
    BY DEF LogInv
  <1> QED BY <1>1, LogStreamCorrect, PTL

(* A receiver that lags (RecvError::Lagged) announces all it jumps over:   *)
(* of the events since the subscription, those that are neither displayed  *)
(* nor on the way are never more than the notices say.                     *)
THEOREM SkipsAreTold == LogSpec => []SkipsAreAnnounced
  <1>1. LogInv => SkipsAreAnnounced
    BY DEF LogInv
  <1> QED BY <1>1, LogStreamCorrect, PTL

(* read_recent_events reads the newest file first and stops when it has    *)
(* enough: unless a rotation falls between listing and reading or lines it *)
(* asked for lay before the last 8 MiB of a file, what it has is an        *)
(* unbroken end of the lines on disk.                                      *)
THEOREM HistoryIsAnEnd == LogSpec => []HistoryHasNoHole
  <1>1. LogInv => HistoryHasNoHole
    BY DEF LogInv
  <1> QED BY <1>1, LogStreamCorrect, PTL
=============================================================================
