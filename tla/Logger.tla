------------------------------- MODULE Logger -------------------------------
(***************************************************************************)
(* The Android log device, drivers/staging/android/logger.c: a ring buffer *)
(* of whole entries that writers overwrite from the front, and readers     *)
(* that are pulled forward when a writer laps them.                        *)
(*                                                                         *)
(* log->mutex makes most of an operation one step.  What does not wait for *)
(* it splits the others: a writer reads w_off before it takes the mutex,   *)
(* w_off moves several times while an entry is written, and                *)
(* logger_release() takes a reader off the list without the mutex.         *)
(*                                                                         *)
(* The buffer is an array of cells.  A cell knows which entry it belongs   *)
(* to and its place in it; the first two cells of an entry hold its length *)
(* as two digits, the way the header holds two bytes.                      *)
(***************************************************************************)
EXTENDS Integers, Sequences, FiniteSets, SequencesExt, KList

CONSTANTS
    Writer, Reader,
    Size,         \* log->size
    Hdr,          \* sizeof(struct logger_entry), in cells
    MaxPayload,   \* LOGGER_ENTRY_MAX_PAYLOAD, in cells
    MaxWrites,    \* bound: how many entries are written
    Faults,       \* may copy_from_user() fail?
    None

LoggerConstants ==
    /\ Hdr \in Nat /\ Hdr >= 2
    /\ MaxPayload \in Nat \ {0}
    /\ Size \in Nat
    /\ \E n \in 0 .. Size : Size = 2 ^ n     \* logger_offset() needs it
    /\ 2 * (Hdr + MaxPayload) <= Size        \* the buffers are far longer
    /\ MaxWrites \in Nat
    /\ Faults \in BOOLEAN
    /\ None \notin Writer \cup Reader

ASSUME LoggerAssumption == LoggerConstants

VARIABLES
    buffer,   \* log->buffer
    w_off,    \* log->w_off
    head,     \* log->head
    readers,  \* log->readers, a sequence
    r_off,    \* r_off[r]: reader->r_off
    mutex,    \* the writer that holds log->mutex between two steps
    wpc,      \* wpc[w]: where writer w is
    orig,     \* orig[w]: its local orig
    iov,      \* iov[w]: the lengths of its segments that are left to write
    entry,    \* entry[w]: [id, len, done] of the entry it writes
    cursor,   \* the reader fix_up_readers() is about to look at
    rpc,      \* rpc[r]: where reader r is
    asleep,   \* asleep[r]: r sleeps, or will when it calls schedule()
    writes,   \* number of entries started, and the id of the last one
    last,     \* last[r]: the id of the last entry r has read
    intact    \* every failed write has put w_off back where it found it, a history

vars == <<buffer, w_off, head, readers, r_off, mutex, wpc, orig, iov, entry,
          cursor, rpc, asleep, writes, last, intact>>
logVars    == <<buffer, w_off, head>>
writerVars == <<mutex, wpc, orig, iov, entry, cursor, writes, intact>>
readerVars == <<readers, r_off, rpc, asleep, last>>

Offset == 0 .. Size - 1
Blank  == [id |-> 0, pos |-> 0, digit |-> 0]
NoEntry == [id |-> 0, len |-> 0, done |-> 0]
WPCs == {"idle", "lock", "fixup", "lost", "header", "payload", "wake"}
RPCs == {"closed", "idle", "wait", "schedule", "read"}

TypeOK ==
    /\ buffer \in [Offset -> [id : 0 .. MaxWrites, pos : 0 .. Size, digit : 0 .. MaxPayload]]
    /\ w_off \in Offset /\ head \in Offset
    /\ readers \in Seq(Reader)
    /\ r_off \in [Reader -> Offset]
    /\ mutex \in Writer \cup {None}
    /\ wpc \in [Writer -> WPCs]
    /\ orig \in [Writer -> Offset]
    /\ iov \in [Writer -> Seq(1 .. MaxPayload)]
    /\ entry \in [Writer -> [id : 0 .. MaxWrites, len : 0 .. MaxPayload,
                             done : 0 .. Hdr + MaxPayload]]
    /\ cursor \in Reader \cup {None}
    /\ rpc \in [Reader -> RPCs]
    /\ asleep \in [Reader -> BOOLEAN]
    /\ writes \in 0 .. MaxWrites
    /\ last \in [Reader -> 0 .. MaxWrites]
    /\ intact \in BOOLEAN

Init ==
    /\ buffer = [o \in Offset |-> Blank]
    /\ w_off = 0 /\ head = 0
    /\ readers = <<>>
    /\ r_off = [r \in Reader |-> 0]
    /\ mutex = None
    /\ wpc = [w \in Writer |-> "idle"]
    /\ orig = [w \in Writer |-> 0]
    /\ iov = [w \in Writer |-> <<>>]
    /\ entry = [w \in Writer |-> NoEntry]
    /\ cursor = None
    /\ rpc = [r \in Reader |-> "closed"]
    /\ asleep = [r \in Reader |-> FALSE]
    /\ writes = 0
    /\ last = [r \in Reader |-> 0]
    /\ intact = TRUE

-----------------------------------------------------------------------------
(***************************************************************************)
(* Arithmetic on offsets.                                                  *)
(***************************************************************************)
logger_offset(n) == n % Size

\* The length at off, two digits of which the second may be in cell 0.
get_entry_len(off) ==
    Hdr + buffer[off].digit
        + 2 * (IF Size - off = 1 THEN buffer[0].digit ELSE buffer[off + 1].digit)

\* The first entry at least len cells after off: the loop skips entries
\* until it has skipped len cells.
get_next_entry(off, len) ==
    LET skip[n \in 0 .. len] ==
            IF n = 0 THEN [off |-> off, count |-> 0]
            ELSE LET nr == get_entry_len(skip[n - 1].off)
                 IN  [off   |-> logger_offset(skip[n - 1].off + nr),
                      count |-> skip[n - 1].count + nr]
        n == CHOOSE i \in 1 .. len : /\ skip[i].count >= len
                                     /\ \A j \in 1 .. i - 1 : skip[j].count < len
    IN  skip[n].off

clock_interval(a, b, c) ==
    IF b < a THEN a < c \/ b >= c ELSE a < c /\ b >= c

\* Where fix_up_readers() moves an offset when w writes its entry.
fix_up(off, len) ==
    IF clock_interval(w_off, logger_offset(w_off + len), off)
    THEN get_next_entry(off, len) ELSE off

\* The entry's cells from place i on, n of them, are stored at w_off.
store(w, i, n) ==
    [o \in Offset |->
        LET k == (o - w_off + Size) % Size
            l == entry[w].len
        IN  IF k >= n THEN buffer[o]
            ELSE [id    |-> entry[w].id,
                  pos   |-> i + k,
                  digit |-> CASE i + k = 0 -> l % 2
                              [] i + k = 1 -> l \div 2
                              [] OTHER -> 0]]

-----------------------------------------------------------------------------
(***************************************************************************)
(* logger_aio_write().                                                     *)
(***************************************************************************)

\* w_off is read before the mutex is taken; null writes change nothing.
write_start(w) ==
    /\ wpc[w] = "idle"
    /\ \E len \in 1 .. MaxPayload : \E first \in 1 .. len :
          /\ iov' = [iov EXCEPT ![w] = IF first = len THEN <<len>>
                                       ELSE <<first, len - first>>]
          /\ entry' = [entry EXCEPT ![w].len = len]
    /\ orig' = [orig EXCEPT ![w] = w_off]
    /\ wpc' = [wpc EXCEPT ![w] = "lock"]
    /\ UNCHANGED <<logVars, readerVars, mutex, cursor, writes, intact>>

EntryLen(w) == Hdr + entry[w].len

First(s) == IF s = <<>> THEN None ELSE Head(s)

\* The reader after r on the list.
NextReader(r) ==
    LET later == {i \in DOMAIN readers : i > 1 /\ readers[i - 1] = r}
    IN  IF later = {} THEN None ELSE readers[CHOOSE i \in later : TRUE]

\* The mutex is taken and the start head fixed up.
write_lock(w) ==
    /\ wpc[w] = "lock" /\ mutex = None /\ writes < MaxWrites
    /\ mutex' = w
    /\ writes' = writes + 1
    /\ entry' = [entry EXCEPT ![w].id = writes + 1]
    /\ head' = fix_up(head, EntryLen(w))
    /\ cursor' = First(readers)
    /\ wpc' = [wpc EXCEPT ![w] = "fixup"]
    /\ UNCHANGED <<buffer, w_off, readerVars, orig, iov, intact>>

\* One turn of list_for_each_entry() in fix_up_readers(), or its end.  A reader
\* that has been freed meanwhile has no next one (list_del() poisons it, and a
\* new owner of the memory points it to itself): the writer does not come back,
\* and keeps the mutex.
fix_up_readers(w) ==
    /\ wpc[w] = "fixup"
    /\ \/ /\ cursor # None /\ cursor \notin ToSet(readers)
          /\ wpc' = [wpc EXCEPT ![w] = "lost"]
          /\ UNCHANGED <<r_off, cursor>>
       \/ /\ cursor # None /\ cursor \in ToSet(readers)
          /\ r_off' = [r_off EXCEPT ![cursor] = fix_up(@, EntryLen(w))]
          /\ cursor' = NextReader(cursor)
          /\ UNCHANGED wpc
       \/ /\ cursor = None
          /\ wpc' = [wpc EXCEPT ![w] = "header"]
          /\ UNCHANGED <<r_off, cursor>>
    /\ UNCHANGED <<logVars, readers, rpc, asleep, last, mutex, orig, iov, entry,
                   writes, intact>>

do_write_log(w) ==
    /\ wpc[w] = "header"
    /\ buffer' = store(w, 0, Hdr)
    /\ w_off' = logger_offset(w_off + Hdr)
    /\ entry' = [entry EXCEPT ![w].done = Hdr]
    /\ wpc' = [wpc EXCEPT ![w] = "payload"]
    /\ UNCHANGED <<head, readerVars, mutex, orig, iov, cursor, writes, intact>>

\* One segment is copied from user space.
do_write_log_from_user(w) ==
    /\ wpc[w] = "payload" /\ iov[w] # <<>>
    /\ LET n == Head(iov[w])
       IN  /\ buffer' = store(w, entry[w].done, n)
           /\ w_off' = logger_offset(w_off + n)
           /\ entry' = [entry EXCEPT ![w].done = @ + n]
    /\ iov' = [iov EXCEPT ![w] = Tail(@)]
    /\ UNCHANGED <<head, readerVars, mutex, wpc, orig, cursor, writes, intact>>

idle_writer(w, l) ==
    /\ wpc' = [wpc EXCEPT ![w] = l]
    /\ mutex' = None
    /\ orig' = [orig EXCEPT ![w] = 0]
    /\ iov' = [iov EXCEPT ![w] = <<>>]
    /\ entry' = [entry EXCEPT ![w] = NoEntry]

\* copy_from_user() fails after some cells: the entry is taken back.
write_fault_keeps_offset(w) ==
    /\ Faults
    /\ wpc[w] = "payload" /\ iov[w] # <<>>
    /\ buffer' = store(w, entry[w].done, Head(iov[w]))
    /\ idle_writer(w, "idle")
    /\ UNCHANGED <<w_off, head, readerVars, cursor, writes, intact>>

\* copy_from_user() fails after some cells: w_off goes back to orig.  It goes
\* back to the beginning of the entry unless somebody has written since orig
\* was read.
write_fault(w) ==
    /\ Faults
    /\ wpc[w] = "payload" /\ iov[w] # <<>>
    /\ buffer' = store(w, entry[w].done, Head(iov[w]))
    /\ w_off' = orig[w]
    /\ intact' = (intact /\ w_off = logger_offset(orig[w] + entry[w].done))
    /\ idle_writer(w, "idle")
    /\ UNCHANGED <<head, readerVars, cursor, writes>>

write_done(w) ==
    /\ wpc[w] = "payload" /\ iov[w] = <<>>
    /\ idle_writer(w, "wake")
    /\ UNCHANGED <<logVars, readerVars, cursor, writes, intact>>

wake_up_interruptible_missing(w) ==
    /\ wpc[w] = "wake"
    /\ wpc' = [wpc EXCEPT ![w] = "idle"]
    /\ UNCHANGED <<logVars, readers, r_off, rpc, last, mutex, orig, iov, entry,
                   cursor, writes, intact, asleep>>

\* wake_up_interruptible(&log->wq), after the mutex is released.
wake_up_interruptible(w) ==
    /\ wpc[w] = "wake"
    /\ asleep' = [r \in Reader |-> FALSE]
    /\ wpc' = [wpc EXCEPT ![w] = "idle"]
    /\ UNCHANGED <<logVars, readers, r_off, rpc, last, mutex, orig, iov, entry,
                   cursor, writes, intact>>

-----------------------------------------------------------------------------
(***************************************************************************)
(* logger_open(), logger_release(), logger_ioctl().                        *)
(***************************************************************************)

logger_open(r) ==
    /\ rpc[r] = "closed" /\ mutex = None
    /\ r_off' = [r_off EXCEPT ![r] = head]
    /\ readers' = Append(readers, r)
    /\ rpc' = [rpc EXCEPT ![r] = "idle"]
    /\ UNCHANGED <<logVars, writerVars, asleep, last>>

\* list_del() and kfree() without the mutex.
logger_release(r) ==
    /\ rpc[r] = "idle"
    /\ readers' = list_del(readers, r)
    /\ rpc' = [rpc EXCEPT ![r] = "closed"]
    /\ r_off' = [r_off EXCEPT ![r] = 0]
    /\ last' = [last EXCEPT ![r] = 0]
    /\ UNCHANGED <<logVars, writerVars, asleep>>

\* LOGGER_FLUSH_LOG; the other requests only look.
logger_flush(w) ==
    /\ wpc[w] = "idle" /\ mutex = None
    /\ r_off' = [r \in Reader |-> IF r \in ToSet(readers) THEN w_off ELSE r_off[r]]
    /\ head' = w_off
    /\ UNCHANGED <<buffer, w_off, readers, rpc, asleep, last, writerVars>>

-----------------------------------------------------------------------------
(***************************************************************************)
(* logger_read().                                                          *)
(***************************************************************************)

prepare_to_wait(r) ==
    /\ rpc[r] = "idle"
    /\ asleep' = [asleep EXCEPT ![r] = TRUE]
    /\ rpc' = [rpc EXCEPT ![r] = "wait"]
    /\ UNCHANGED <<logVars, writerVars, readers, r_off, last>>

\* The test of the loop; O_NONBLOCK or a signal ends the call.
read_test(r) ==
    /\ rpc[r] = "wait" /\ mutex = None
    /\ \/ /\ w_off # r_off[r]
          /\ rpc' = [rpc EXCEPT ![r] = "read"]
          /\ asleep' = [asleep EXCEPT ![r] = FALSE]
       \/ /\ w_off = r_off[r]
          /\ rpc' = [rpc EXCEPT ![r] = "idle"]
          /\ asleep' = [asleep EXCEPT ![r] = FALSE]
       \/ /\ w_off = r_off[r]
          /\ rpc' = [rpc EXCEPT ![r] = "schedule"]
          /\ UNCHANGED asleep
    /\ UNCHANGED <<logVars, writerVars, readers, r_off, last>>

\* schedule() returns; the loop begins again with prepare_to_wait().
read_schedule(r) ==
    /\ rpc[r] = "schedule" /\ ~asleep[r]
    /\ asleep' = [asleep EXCEPT ![r] = TRUE]
    /\ rpc' = [rpc EXCEPT ![r] = "wait"]
    /\ UNCHANGED <<logVars, writerVars, readers, r_off, last>>

\* A signal ends schedule(); the loop then sees it and returns -EINTR.
signal(r) ==
    /\ rpc[r] = "schedule" /\ asleep[r]
    /\ asleep' = [asleep EXCEPT ![r] = FALSE]
    /\ UNCHANGED <<logVars, writerVars, readers, r_off, rpc, last>>

\* One entry is copied out and the reader moves behind it.
do_read_log_to_user_stays(r) == r_off[r]

do_read_log_to_user(r) == logger_offset(r_off[r] + get_entry_len(r_off[r]))

\* The mutex again: somebody may have emptied the log meanwhile.  A buffer
\* that is too small or a fault in copy_to_user() leaves everything as it is.
read_entry(r) ==
    /\ rpc[r] = "read" /\ mutex = None
    /\ \/ /\ w_off = r_off[r]
          /\ asleep' = [asleep EXCEPT ![r] = TRUE]
          /\ rpc' = [rpc EXCEPT ![r] = "wait"]
          /\ UNCHANGED <<r_off, last>>
       \/ /\ w_off # r_off[r]
          /\ r_off' = [r_off EXCEPT ![r] = do_read_log_to_user(r)]
          /\ last' = [last EXCEPT ![r] = buffer[r_off[r]].id]
          /\ rpc' = [rpc EXCEPT ![r] = "idle"]
          /\ UNCHANGED asleep
       \/ /\ w_off # r_off[r]
          /\ rpc' = [rpc EXCEPT ![r] = "idle"]
          /\ UNCHANGED <<r_off, last, asleep>>
    /\ UNCHANGED <<logVars, writerVars, readers>>

-----------------------------------------------------------------------------
WriterStep(w) ==
    \/ write_lock(w) \/ fix_up_readers(w) \/ do_write_log(w)
    \/ do_write_log_from_user(w) \/ write_done(w) \/ wake_up_interruptible(w)

Next ==
    \/ \E w \in Writer :
          \/ write_start(w) \/ write_lock(w) \/ fix_up_readers(w)
          \/ do_write_log(w) \/ do_write_log_from_user(w) \/ write_fault(w)
          \/ write_done(w) \/ wake_up_interruptible(w) \/ logger_flush(w)
    \/ \E r \in Reader :
          \/ logger_open(r) \/ logger_release(r)
          \/ prepare_to_wait(r) \/ read_test(r)
          \/ signal(r) \/ read_schedule(r) \/ read_entry(r)

\* A writer that has begun goes on, and so does a reader inside read().
Fairness ==
    /\ \A w \in Writer : WF_vars(WriterStep(w))
    /\ \A r \in Reader : WF_vars(read_test(r)) /\ WF_vars(read_schedule(r))

Spec     == Init /\ [][Next]_vars
LiveSpec == Spec /\ Fairness

-----------------------------------------------------------------------------
(***************************************************************************)
(* Reference: what a readable log is, said without the code's arithmetic.  *)
(***************************************************************************)

\* The cells from o on are one whole entry of length n.
WholeEntry(o, n) ==
    \A k \in 0 .. n - 1 : /\ buffer[(o + k) % Size].id = buffer[o].id
                          /\ buffer[(o + k) % Size].pos = k

\* From o on there are whole entries, of increasing age, up to w_off.
Readable(o) ==
    LET at[n \in 0 .. Size] ==
            IF n = 0 THEN o
            ELSE IF at[n - 1] = w_off THEN w_off
            ELSE (at[n - 1] + get_entry_len(at[n - 1])) % Size
    IN  /\ at[Size] = w_off
        /\ \A n \in 0 .. Size - 1 : at[n] # w_off =>
              /\ buffer[at[n]].id # 0
              /\ WholeEntry(at[n], get_entry_len(at[n]))
              /\ at[n + 1] # w_off => buffer[at[n]].id < buffer[at[n + 1]].id

\* Whenever the mutex is free, the start head and every open reader stand
\* before whole entries that follow each other in order up to w_off: no write,
\* lapping, flush or close leaves a reader inside an entry.  Nor does a failed
\* write, unless it takes back more than its own entry, because another one
\* was written between its look at w_off (logger.c:328) and its mutex_lock().
EntriesReadable ==
    mutex = None /\ intact =>
        Readable(head) /\ \A r \in ToSet(readers) : Readable(r_off[r])

\* A reader never gets an entry twice or out of order, also when a writer
\* pulls it forward or takes back the entry it has failed to write, with the
\* same exception.
ReadInOrder ==
    mutex = None /\ intact =>
        \A r \in ToSet(readers) :
            r_off[r] # w_off => buffer[r_off[r]].id > last[r]

\* A reader that sleeps on a log with something to read is woken, although
\* the writer wakes the queue only after it has released the mutex; a failed
\* write wakes nobody, and may leave something to read only by that exception.
SleepingReaderWoken ==
    \A r \in Reader :
        rpc[r] = "schedule" /\ mutex = None /\ w_off # r_off[r]
            ~> rpc[r] # "schedule" \/ ~intact
=============================================================================
