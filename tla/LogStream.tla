------------------------------- MODULE LogStream -------------------------------
(***************************************************************************)
(* The server log and an administrator who looks at it. A logging thread    *)
(* broadcasts its event and then writes it to a file that rotates; the       *)
(* stream subscribes, reads the newest lines of the files one file after     *)
(* the other and goes on with the broadcast; the client connects again       *)
(* whenever a connection ends.                                              *)
(* Events are numbered in the order of their broadcast.                     *)
(***************************************************************************)
EXTENDS Integers, Sequences, FiniteSets, SequencesExt

CONSTANTS
  MaxEvents,        \* bound: events the server emits
  Writers,          \* threads that may be between broadcast and write
  ChannelCapacity,  \* capacity of the broadcast channel (1024)
  FileSize,         \* lines a log file holds before it rotates (max_size_mb)
  Window,           \* lines the last 8 MiB of a longer file hold at least
  MaxArchives,      \* max_archived_files
  Lines,            \* lines of history the client asks for
  SeenLimit,        \* event ids the client remembers (20 000)
  WireSize,         \* lines the connection holds while the client is slow
  MaxConnections    \* bound: responses the client gets

ASSUME LogAssumption ==
  /\ {MaxEvents, Window, MaxArchives, Lines, SeenLimit, MaxConnections} \subseteq Nat
  /\ {Writers, ChannelCapacity, FileSize, WireSize} \subseteq Nat \ {0}

Events == 1..MaxEvents

VARIABLES
  sent,        \* events broadcast so far
  unwritten,   \* events broadcast and not yet in the file
  activeFile,  \* the lines of the rCURRENT file
  archives,    \* the rotated files by number; old ones are gone
  stream,      \* stream_events: "none", "subscribing", "listing", "active",
               \* "archives", "history", "live", "ended"
  position,    \* the receiver has consumed the broadcast up to here
  paths,       \* the numbers of the rotated files still to read
  history,     \* what read_recent_events has read, then what is left to send
  serverSeen,  \* seen of stream_events
  wire,        \* lines sent and not yet read by the client
  viewer,      \* the client: "connecting", "reading", "failed", "done"
  follow,      \* logs --follow, or a single look at the recent lines
  lines,       \* history_lines of the client
  clientSeen,  \* seen of AdminClient::stream_logs
  connections, \* responses the client got
  shown,       \* history: events displayed
  repeated,    \* history: events displayed more than once
  skipped,     \* history: events this connection announced as skipped
  subscribed,  \* history: where the receiver began
  onDisk,      \* history: the lines on disk when the active file was read
  rotated,     \* history: a rotation fell between listing and that read
  cut          \* history: lines that were asked for lay before the 8 MiB

fileVars == <<sent, unwritten, activeFile, archives>>
serverVars == <<stream, position, paths, history, serverSeen>>
viewerVars == <<viewer, follow, lines, clientSeen, connections, shown, repeated>>
noteVars == <<skipped, subscribed, onDisk, rotated, cut>>
logVars == <<fileVars, serverVars, wire, viewerVars, noteVars>>

Least(a, b) == IF a < b THEN a ELSE b
Newest(s, n) == SubSeq(s, Len(s) - Least(n, Len(s)) + 1, Len(s))

Exists(n) == n > Len(archives) - MaxArchives
FileLines(n) == IF Exists(n) THEN archives[n] ELSE <<>>
Disk == FlattenSeq([n \in 1..Len(archives) |-> FileLines(n)]) \o activeFile

-----------------------------------------------------------------------------
(* Logging threads (NdjsonFormatter::format_event).                        *)

Broadcast ==
  /\ sent < MaxEvents
  /\ Cardinality(unwritten) < Writers
  /\ sent' = sent + 1
  /\ unwritten' = unwritten \cup {sent + 1}
  /\ UNCHANGED <<activeFile, archives, serverVars, wire, viewerVars, noteVars>>

(* The file writer rotates a full file before it writes.                   *)
WriteLine(e) ==
  /\ e \in unwritten
  /\ unwritten' = unwritten \ {e}
  /\ IF Len(activeFile) >= FileSize
       THEN /\ archives' = Append(archives, activeFile)
            /\ activeFile' = <<e>>
            /\ rotated' = (rotated \/ stream = "active")
       ELSE /\ activeFile' = Append(activeFile, e)
            /\ UNCHANGED <<archives, rotated>>
  /\ UNCHANGED <<sent, serverVars, wire, viewerVars, skipped, subscribed, onDisk, cut>>

-----------------------------------------------------------------------------
(* The server's side of one connection (stream_events).                    *)

(* The body is polled for the first time.                                  *)
Subscribe ==
  /\ stream = "subscribing"
  /\ stream' = "listing"
  /\ position' = sent
  /\ subscribed' = sent
  /\ UNCHANGED <<fileVars, paths, history, serverSeen, wire, viewerVars,
                 skipped, onDisk, rotated, cut>>

(* min(lines, MAX_RECENT_EVENTS); no file is looked at for no lines.       *)
Limit == lines

Kept == Least(MaxArchives, Len(archives))

(* Seeded fault: the rotated files are read from the oldest on.            *)
Listed_OldestFirst == [i \in 1..Kept |-> Len(archives) - Kept + i]

(* rotated_paths in the order they are read.                               *)
Listed == [i \in 1..Kept |-> Len(archives) + 1 - i]

ListPaths ==
  /\ stream = "listing"
  /\ stream' = IF Limit = 0 THEN "archives" ELSE "active"
  /\ paths' = IF Limit = 0 THEN <<>> ELSE Listed
  /\ rotated' = FALSE
  /\ cut' = FALSE
  /\ UNCHANGED <<fileVars, position, history, serverSeen, wire, viewerVars,
                 skipped, subscribed, onDisk>>

(* read_file_backwards: of a file's last 8 MiB, which hold its newest lines *)
(* up to some number, the newest n lines, put before what was read.        *)
ReadLines(f, n) ==
  \E seen \in Least(Window, Len(f))..Len(f) :
    /\ history' = Newest(f, Least(n, seen)) \o history
    /\ cut' = (cut \/ (seen < n /\ seen < Len(f)))

ReadActive ==
  /\ stream = "active"
  /\ stream' = "archives"
  /\ ReadLines(activeFile, Limit)
  /\ onDisk' = Disk
  /\ UNCHANGED <<fileVars, position, paths, serverSeen, wire, viewerVars,
                 skipped, subscribed, rotated>>

(* A rotated file that was removed meanwhile reads as empty.               *)
ReadArchive ==
  /\ stream = "archives"
  /\ paths # <<>>
  /\ Len(history) < Limit
  /\ ReadLines(FileLines(Head(paths)), Limit - Len(history))
  /\ paths' = Tail(paths)
  /\ UNCHANGED <<fileVars, stream, position, serverSeen, wire, viewerVars,
                 skipped, subscribed, onDisk, rotated>>

(* A file that cannot be read to its end leaves a follower with no history *)
(* (unwrap_or_default); a single look then fails as a whole (Disconnect).  *)
ReadFails ==
  /\ follow
  /\ stream = "active" \/ (stream = "archives" /\ paths # <<>> /\ Len(history) < Limit)
  /\ stream' = "archives"
  /\ paths' = <<>> /\ history' = <<>>
  /\ UNCHANGED <<fileVars, position, serverSeen, wire, viewerVars, noteVars>>

(* A follower is sent the lines one by one, a single look gets them all.   *)
HistoryRead ==
  /\ stream = "archives"
  /\ paths = <<>> \/ Len(history) >= Limit
  /\ paths' = <<>>
  /\ serverSeen' = Range(history)
  /\ IF follow
       THEN /\ stream' = "history"
            /\ UNCHANGED <<history, viewer, shown>>
       ELSE /\ stream' = "none"
            /\ history' = <<>>
            /\ viewer' = "done"
            /\ shown' = Range(history)
  /\ UNCHANGED <<fileVars, position, wire, follow, lines, clientSeen, connections,
                 repeated, noteVars>>

Room == Len(wire) < WireSize

SendHistory ==
  /\ stream = "history"
  /\ history # <<>>
  /\ Room
  /\ wire' = Append(wire, Head(history))
  /\ history' = Tail(history)
  /\ UNCHANGED <<fileVars, stream, position, paths, serverSeen, viewerVars, noteVars>>

(* Seeded fault: the receiver is created after the history was sent.       *)
LiveFrom_Now == sent

LiveFrom == position

GoLive ==
  /\ stream = "history"
  /\ history = <<>>
  /\ stream' = "live"
  /\ position' = LiveFrom
  /\ UNCHANGED <<fileVars, paths, history, serverSeen, wire, viewerVars, noteVars>>

Lost == sent - position - ChannelCapacity

Repeated(e) == e \in serverSeen

(* The next event, unless the history had it (receiver.recv, seen.insert). *)
Receive ==
  /\ stream = "live"
  /\ position < sent /\ Lost <= 0
  /\ Room
  /\ position' = position + 1
  /\ serverSeen' = serverSeen \cup {position + 1}
  /\ wire' = IF Repeated(position + 1) THEN wire ELSE Append(wire, position + 1)
  /\ UNCHANGED <<fileVars, stream, paths, history, viewerVars, noteVars>>

(* RecvError::Lagged(n): the receiver goes on with the oldest event kept.  *)
Lag ==
  /\ stream = "live"
  /\ Lost > 0
  /\ Room
  /\ position' = position + Lost
  /\ wire' = Append(wire, -Lost)
  /\ UNCHANGED <<fileVars, stream, paths, history, serverSeen, viewerVars, noteVars>>

(* The node drains or the broadcast is closed.                             *)
EndOfStream ==
  /\ stream = "live"
  /\ stream' = "ended"
  /\ UNCHANGED <<fileVars, position, paths, history, serverSeen, wire, viewerVars,
                 noteVars>>

-----------------------------------------------------------------------------
(* The client (AdminClient::stream_logs, recent_logs).                     *)

(* Seeded fault: every connection asks for the history.                    *)
LinesAfter_Kept == lines

LinesAfter == 0

(* A successful response. Only a follower asks for no history afterwards.  *)
Connect ==
  /\ viewer = "connecting"
  /\ connections < MaxConnections
  /\ connections' = connections + 1
  /\ viewer' = "reading"
  /\ stream' = IF follow THEN "subscribing" ELSE "listing"
  /\ UNCHANGED <<fileVars, position, paths, history, serverSeen, wire, follow, lines,
                 clientSeen, shown, repeated, noteVars>>

(* A 4xx answer, or any failure of a single look, ends the command.        *)
Reject ==
  /\ viewer = "connecting"
  /\ viewer' = "failed"
  /\ UNCHANGED <<fileVars, serverVars, wire, follow, lines, clientSeen, connections,
                 shown, repeated, noteVars>>

(* Seeded fault: the set of known events is never cleared.                  *)
Remember_All(e) == clientSeen' = clientSeen \cup {e}

Remember(e) ==
  LET all == clientSeen \cup {e}
  IN  clientSeen' = IF Cardinality(all) > SeenLimit THEN {} ELSE all

(* One line: a notice of skipped events, or an event not displayed yet.    *)
Display ==
  /\ wire # <<>>
  /\ wire' = Tail(wire)
  /\ IF Head(wire) < 0
       THEN /\ skipped' = skipped - Head(wire)
            /\ UNCHANGED <<clientSeen, shown, repeated>>
       ELSE /\ Remember(Head(wire))
            /\ IF Head(wire) \in clientSeen
                 THEN UNCHANGED <<shown, repeated>>
                 ELSE /\ shown' = shown \cup {Head(wire)}
                      /\ repeated' = IF Head(wire) \in shown
                                       THEN repeated \cup {Head(wire)} ELSE repeated
            /\ UNCHANGED skipped
  /\ UNCHANGED <<fileVars, serverVars, viewer, follow, lines, connections,
                 subscribed, onDisk, rotated, cut>>

(* The connection is over, after its last line or in the middle: what was  *)
(* on the wire is lost, and a follower connects again.                     *)
Disconnect ==
  /\ viewer = "reading"
  /\ viewer' = IF follow THEN "connecting" ELSE "failed"
  /\ lines' = IF follow THEN LinesAfter ELSE lines
  /\ stream' = "none" /\ position' = 0
  /\ paths' = <<>> /\ history' = <<>> /\ serverSeen' = {}
  /\ wire' = <<>>
  /\ skipped' = 0 /\ subscribed' = 0 /\ onDisk' = <<>> /\ rotated' = FALSE
  /\ cut' = FALSE
  /\ UNCHANGED <<fileVars, follow, clientSeen, connections, shown, repeated>>

LogInit ==
  /\ sent = 0 /\ unwritten = {} /\ activeFile = <<>> /\ archives = <<>>
  /\ stream = "none" /\ position = 0 /\ paths = <<>> /\ history = <<>>
  /\ serverSeen = {} /\ wire = <<>>
  /\ viewer = "connecting" /\ follow \in BOOLEAN /\ lines = Lines
  /\ clientSeen = {} /\ connections = 0 /\ shown = {} /\ repeated = {}
  /\ skipped = 0 /\ subscribed = 0 /\ onDisk = <<>> /\ rotated = FALSE
  /\ cut = FALSE

StreamProgress ==
  \/ Subscribe \/ ListPaths \/ ReadActive \/ ReadArchive \/ ReadFails
  \/ HistoryRead \/ SendHistory \/ GoLive \/ Receive \/ Lag

LogNext ==
  \/ Broadcast
  \/ \E e \in Events : WriteLine(e)
  \/ StreamProgress \/ EndOfStream
  \/ Connect \/ Reject \/ Display \/ Disconnect

LogSpec == LogInit /\ [][LogNext]_logVars

-----------------------------------------------------------------------------
(* Every variable has its type.                                            *)
LogTypeOK ==
  /\ sent \in 0..MaxEvents /\ unwritten \subseteq 1..sent
  /\ activeFile \in Seq(Events) /\ archives \in Seq(Seq(Events))
  /\ stream \in {"none", "subscribing", "listing", "active", "archives", "history",
                 "live", "ended"}
  /\ position \in 0..sent /\ paths \in Seq(Nat) /\ history \in Seq(Events)
  /\ serverSeen \subseteq Events /\ wire \in Seq((-MaxEvents)..MaxEvents)
  /\ viewer \in {"connecting", "reading", "failed", "done"} /\ follow \in BOOLEAN
  /\ lines \in {0, Lines} /\ connections \in 0..MaxConnections
  /\ clientSeen \subseteq Events /\ Cardinality(clientSeen) <= SeenLimit
  /\ shown \subseteq Events /\ repeated \subseteq shown
  /\ skipped \in Nat /\ subscribed \in 0..sent
  /\ onDisk \in Seq(Events) /\ rotated \in BOOLEAN /\ cut \in BOOLEAN

(* No event is displayed twice, although it reaches the stream both through *)
(* the file and through the broadcast, connections break and begin anew,    *)
(* and the client forgets what it has seen (stream_events, stream_logs).    *)
NoEventTwice == repeated = {}

(* A follower misses nothing silently while its connection lasts: of the    *)
(* events broadcast since the subscription, those that are neither shown    *)
(* nor on the way are no more than the notices have announced, however long *)
(* the history took to send and however slow the client is.                *)
Notice(x) == IF x < 0 THEN x ELSE 0
Owed(s) == FoldLeft(LAMBDA m, n : m + n, 0, [i \in DOMAIN s |-> Notice(s[i])])
Announced == skipped - Owed(wire)

SkipsAreAnnounced ==
  stream \in {"live", "ended"} =>
    Cardinality({e \in (subscribed + 1)..position :
                   e \notin shown \cup Range(wire)}) <= Announced

(* The history is what the log ends with: a gapless end of the lines on     *)
(* disk when the active file was read. Two things may leave a hole, and     *)
(* nothing else does: the log rotated after the files were listed           *)
(* (read_recent_events opens them one by one), or lines that were asked for  *)
(* lay before the last 8 MiB of a file (read_file_backwards skips them and   *)
(* goes on with the next older file).                                      *)
HistoryHasNoHole ==
  stream = "archives" /\ ~rotated /\ ~cut => IsSuffix(history, onDisk)
=============================================================================
