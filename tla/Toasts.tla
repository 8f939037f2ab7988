-------------------------------- MODULE Toasts --------------------------------
(***************************************************************************)
(* The toast bus and its one forwarder (dayseam-events' app_bus.rs,        *)
(* ipc/broadcast_forwarder.rs): a ring of the newest toasts; a forwarder   *)
(* that falls behind learns how many it missed, and counts them in one log *)
(* row per interval.                                                       *)
(***************************************************************************)
EXTENDS Naturals

CONSTANTS Capacity,       \* of the ring
          FlushInterval,  \* LAG_WRITE_MIN_INTERVAL, in ticks
          MaxToasts,      \* bound: toasts published
          MaxTicks        \* bound: ticks of the clock

ASSUME RingHoldsAToast == Capacity \in Nat \ {0}

\* The forwarder has not flushed since it started.
NeverFlushed == MaxTicks + 1

VARIABLES
    published,   \* toasts sent on the bus
    cursor,      \* how far the forwarder has read
    emitted,     \* the toasts it emitted to the windows
    pending,     \* LagAggregator::pending
    lastFlush,   \* LagAggregator::last_flush
    forwarder,   \* "none", "up" (in select!) or "closed"
    logged,      \* the sum of the missed counts of the log rows
    ticks,
    unheard,     \* bookkeeping: toasts published before there was a forwarder
    unlogged     \* bookkeeping: missed counts of the rows SQLite refused

toastVars == <<published, cursor, emitted, pending, lastFlush, forwarder, logged, ticks,
               unheard, unlogged>>

ToastInit ==
    /\ published = 0 /\ cursor = 0 /\ emitted = 0 /\ pending = 0
    /\ lastFlush = NeverFlushed /\ forwarder = "none"
    /\ logged = 0 /\ ticks = 0 /\ unheard = 0 /\ unlogged = 0

Behind == published - cursor

\* publish_toast: without a receiver nothing is kept.
PublishToast ==
    /\ published < MaxToasts
    /\ published' = published + 1
    /\ IF forwarder = "up"
       THEN UNCHANGED <<cursor, unheard>>
       ELSE cursor' = cursor + 1 /\ unheard' = unheard + 1
    /\ UNCHANGED <<emitted, pending, lastFlush, forwarder, logged, ticks, unlogged>>

\* spawn: subscribes to what is published from now on.
SpawnForwarder ==
    /\ forwarder = "none"
    /\ forwarder' = "up"
    /\ UNCHANGED <<published, cursor, emitted, pending, lastFlush, logged, ticks,
                   unheard, unlogged>>

PassTime ==
    /\ ticks < MaxTicks /\ ticks' = ticks + 1
    /\ UNCHANGED <<published, cursor, emitted, pending, lastFlush, forwarder, logged,
                   unheard, unlogged>>

\* recv of a toast still in the ring, and emit_toast.
EmitToast ==
    /\ forwarder = "up" /\ Behind \in 1 .. Capacity
    /\ cursor' = cursor + 1 /\ emitted' = emitted + 1
    /\ UNCHANGED <<published, pending, lastFlush, forwarder, logged, ticks, unheard, unlogged>>

\* take_if_ready's condition, with `count` pending.
Ready(count) ==
    count > 0 /\ (lastFlush = NeverFlushed \/ ticks - lastFlush >= FlushInterval)

\* take_if_ready or take_force, then write_lag_row, whose error is swallowed.
Flush(count) ==
    /\ pending' = 0 /\ lastFlush' = ticks
    /\ \/ logged' = logged + count /\ UNCHANGED unlogged
       \/ unlogged' = unlogged + count /\ UNCHANGED logged

KeepPending(count) ==
    /\ pending' = count
    /\ UNCHANGED <<lastFlush, logged, unlogged>>

\* Variant: the newest lag replaces the pending count.
RecordReplacing(missed) == missed

\* LagAggregator::record
Record(missed) == pending + missed

\* recv of Lagged(missed): the cursor jumps to the oldest toast in the ring.
Lagged ==
    /\ forwarder = "up" /\ Behind > Capacity
    /\ cursor' = published - Capacity
    /\ LET missed == Behind - Capacity IN
       IF Ready(Record(missed)) THEN Flush(Record(missed)) ELSE KeepPending(Record(missed))
    /\ UNCHANGED <<published, emitted, forwarder, ticks, unheard>>

\* The sleep of wait_before_flush fires; recv is preferred (biased).
FlushTimer ==
    /\ forwarder = "up" /\ Behind = 0
    /\ Ready(pending)
    /\ Flush(pending)
    /\ UNCHANGED <<published, cursor, emitted, forwarder, ticks, unheard>>

\* recv of Closed: the last clone of the bus is gone.
CloseBus ==
    /\ forwarder = "up" /\ Behind = 0
    /\ forwarder' = "closed"
    /\ IF pending > 0 THEN Flush(pending) ELSE KeepPending(pending)
    /\ UNCHANGED <<published, cursor, emitted, ticks, unheard>>

ToastNext ==
    \/ PublishToast \/ SpawnForwarder \/ PassTime \/ EmitToast
    \/ Lagged \/ FlushTimer \/ CloseBus

ToastSpec == ToastInit /\ [][ToastNext]_toastVars

(***************************************************************************)
(* Properties                                                              *)
(***************************************************************************)

\* broadcast_forwarder.rs:5-10, 102-127: every toast published while there is
\* a forwarder was shown, is still in the ring, or is counted once: in a log
\* row, in a row SQLite refused, or in the pending count; and none is pending
\* when the forwarder has ended.
LaggedToastsAreCounted ==
    /\ published = unheard + emitted + Behind + pending + unlogged + logged
    /\ forwarder = "closed" => pending = 0

=============================================================================
