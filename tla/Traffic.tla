------------------------------- MODULE Traffic -------------------------------
(***************************************************************************)
(* Monthly traffic (monitor/netstatic.rs) and the network part of a report *)
(* (monitor/mod.rs, monitor/net): the counters of the interfaces are read  *)
(* on every tick, turned into rates per interface and, with a billing day, *)
(* into a total of the month that is saved on every tick and survives a    *)
(* restart.  Sending and receiving are treated alike; one of them is here. *)
(***************************************************************************)
EXTENDS Integers, FiniteSets, FiniteSetsExt, Functions

CONSTANTS
    Nics,          \* interfaces that pass include_nic, no more than MAX_NETWORKS
    Width,         \* 2^64: the range of a u64
    DaysPerMonth,  \* days of a month
    RotateDays,    \* Config.month_rotate: 0 is off, else the day of the month
    LastDay,       \* bound: days the clock goes through
    MaxMoves,      \* bound: bytes that pass
    MaxUpsets      \* bound: kills, interfaces and samples lost, steps back in time

ASSUME TrafficAssumption ==
    /\ IsFiniteSet(Nics)
    /\ Width \in Nat \ {0} /\ DaysPerMonth \in Nat \ {0}
    /\ RotateDays \subseteq 0..28
    /\ LastDay \in Nat /\ MaxMoves \in Nat /\ MaxUpsets \in Nat

VARIABLES
    rotate,    \* Config.month_rotate
    day,       \* the clock, in days
    counter,   \* interface -> its kernel counter, for those plugged in
    running,   \* "down", "idle" (between two ticks) or "saving" (in save)
    netstatic, \* Monitor.netstatic: [month, bytes], or NoFile when off
    disk,      \* what the persistence file holds, or NoFile
    prevTotal, \* Monitor.prev_total_up
    ready,     \* Monitor.net_total_ready
    prevNics,  \* PrevNetSnapshot: interface -> counter
    upsets,    \* bound: kills, losses, clock steps so far
    moves,     \* bound: bytes so far
    fresh,     \* ghost: interface -> bytes since the last tick that saw it
    bill,      \* ghost: [cycle, late, bytes], what the calendar would bill
    billOnDisk, \* ghost: what the bill was when disk was written
    early,     \* ghost: the cycle before whose first day the file was created
    setBack,   \* ghost: the clock went back to an earlier month or cycle
    fell       \* ghost: the sum of the counters fell behind the program's back

tfWorld == <<day, counter, moves>>
tfMemory == <<netstatic, prevTotal, ready, prevNics>>
ghosts == <<bill, billOnDisk, early, setBack, fell>>
tfVars == <<rotate, tfWorld, running, tfMemory, disk, upsets, fresh, ghosts>>

NoFile == [month |-> -1, bytes |-> 0]
Off == [month |-> -2, bytes |-> 0]
NoNics == [n \in {} |-> 0]

\* What a file holds: save writes it, and load refuses anything else.
FileContent == [month : Nat, bytes : 0..(Width - 1)]

Month == day \div DaysPerMonth
DayOfMonth == (day % DaysPerMonth) + 1

\* The cycle billed, by the calendar: it begins on the day of its month.
Cycle == IF DayOfMonth < rotate THEN Month - 1 ELSE Month
NoCycle == -2

NoBill == [cycle |-> NoCycle, late |-> FALSE, bytes |-> 0]

\* A bill that begins now, late if the month of its cycle is over already.
NewBill == [cycle |-> Cycle, late |-> DayOfMonth < rotate, bytes |-> 0]

TfInit ==
    /\ rotate \in RotateDays
    /\ day = 0
    /\ counter = [n \in Nics |-> 1]
    /\ running = "down"
    /\ netstatic = Off
    /\ disk = NoFile
    /\ prevTotal = 0
    /\ ready = FALSE
    /\ prevNics = NoNics
    /\ upsets = 0
    /\ moves = 0
    /\ fresh = [n \in Nics |-> 0]
    /\ bill = NoBill
    /\ billOnDisk = NoBill
    /\ early = NoCycle
    /\ setBack = FALSE
    /\ fell = FALSE

TfTypeOK ==
    /\ rotate \in RotateDays
    /\ day \in 0..LastDay
    /\ DOMAIN counter \subseteq Nics /\ DOMAIN prevNics \subseteq Nics
    /\ running \in {"down", "idle", "saving"}
    /\ netstatic \in FileContent \cup {Off} /\ disk \in FileContent \cup {NoFile}
    /\ ready \in BOOLEAN

(***************************************************************************)
(* NetStatic.                                                              *)
(***************************************************************************)

\* NetStatic::update: wrapping addition.
Update(ns, delta) == [ns EXCEPT !.bytes = (@ + delta) % Width]

\* Mutant: the day of the month is not waited for.
MaybeResetAtOnce(ns) ==
    IF rotate = 0 \/ Month = ns.month THEN ns ELSE [month |-> Month, bytes |-> 0]

\* NetStatic::maybe_reset: any month that is not the stored one, from the day on.
MaybeReset(ns) ==
    IF rotate = 0 \/ Month = ns.month \/ DayOfMonth < rotate
    THEN ns
    ELSE [month |-> Month, bytes |-> 0]

\* load_or_create_netstatic: a file that is missing or unreadable is a new month.
LoadOrCreate ==
    IF disk = NoFile THEN [month |-> Month, bytes |-> 0] ELSE MaybeReset(disk)

(***************************************************************************)
(* The world.                                                              *)
(***************************************************************************)

\* A byte passes an interface.
Move(n) ==
    /\ n \in DOMAIN counter
    /\ moves < MaxMoves
    /\ moves' = moves + 1
    /\ counter' = [counter EXCEPT ![n] = @ + 1]
    /\ fresh' = [fresh EXCEPT ![n] = @ + 1]
    /\ UNCHANGED <<rotate, day, running, tfMemory, disk, upsets, ghosts>>

NextDay ==
    /\ day < LastDay
    /\ day' = day + 1
    /\ UNCHANGED <<rotate, counter, moves, running, tfMemory, disk, upsets, fresh, ghosts>>

Upset == upsets < MaxUpsets /\ upsets' = upsets + 1

\* The clock is set back, as on a machine that boots without one.
ClockBack ==
    /\ Upset
    /\ UNCHANGED <<rotate, counter, moves, running, tfMemory, disk, fresh>>
    /\ day' \in 0..(day - 1)
    /\ setBack' = \/ setBack
                  \/ /\ running # "down" \/ disk # NoFile
                     /\ Month' < Month \/ Cycle' < Cycle
    /\ UNCHANGED <<bill, billOnDisk, early, fell>>

\* An interface goes, or comes (back) with its counter at zero.
Unplug(n) ==
    /\ Upset
    /\ n \in DOMAIN counter
    /\ counter' = [m \in DOMAIN counter \ {n} |-> counter[m]]
    /\ fell' = (fell \/ running # "down")
    /\ UNCHANGED <<rotate, day, moves, running, tfMemory, disk, fresh, bill, billOnDisk, early, setBack>>

Plug(n) ==
    /\ n \in Nics \ DOMAIN counter
    /\ counter' = [m \in DOMAIN counter \cup {n} |-> IF m = n THEN 0 ELSE counter[m]]
    /\ fresh' = [fresh EXCEPT ![n] = 0]
    /\ UNCHANGED <<rotate, day, moves, running, tfMemory, disk, upsets, ghosts>>

Kill ==
    /\ running # "down"
    /\ Upset
    /\ running' = "down"
    /\ UNCHANGED <<rotate, tfWorld, tfMemory, disk, fresh, ghosts>>

(***************************************************************************)
(* The agent.                                                              *)
(***************************************************************************)

\* Monitor::new_with_config.
Begin ==
    /\ running = "down"
    /\ running' = "idle"
    /\ netstatic' = IF rotate = 0 THEN Off ELSE LoadOrCreate
    /\ prevTotal' = 0
    /\ ready' = FALSE
    /\ prevNics' = NoNics
    /\ bill' = CASE disk = NoFile -> [NewBill EXCEPT !.late = FALSE]
                 [] disk # NoFile /\ billOnDisk.cycle = Cycle -> billOnDisk
                 [] OTHER -> NewBill
    /\ early' = CASE disk # NoFile -> early
                  [] disk = NoFile /\ DayOfMonth < rotate -> Month
                  [] OTHER -> NoCycle
    /\ UNCHANGED <<rotate, tfWorld, disk, upsets, fresh, billOnDisk, setBack, fell>>

\* The rate of one interface (safe_delta): none without a previous sample, and
\* none when the counter went back (saturating; DeltaOf is not).
RateOf(seen, n) ==
    IF n \in DOMAIN prevNics /\ seen[n] > prevNics[n] THEN seen[n] - prevNics[n] ELSE 0

\* Mutant: the first tick counts all that the counters ever counted.
DeltaOfFirstTick(total) == (total - prevTotal) % Width

\* The bytes of this tick: wrapping subtraction of the sums, none on the first.
DeltaOf(total) == IF ready THEN (total - prevTotal) % Width ELSE 0

\* What this tick adds to the bill: all that passed, from the second tick on.
Billed(opens) ==
    IF bill.cycle # Cycle THEN NewBill
    ELSE IF ready /\ opens THEN [bill EXCEPT !.bytes = @ + SumFunction(fresh)] ELSE bill

\* net::collect and the network part of encode_report, up to the save.  The
\* file of counters may fail to open: no interface is seen, the samples stay.
Tick(opens) ==
    /\ running = "idle"
    /\ LET seen == IF opens THEN counter ELSE NoNics
           total == SumFunction(seen)
           ns == MaybeReset(Update(netstatic, DeltaOf(total)))
       IN  /\ prevNics' = IF opens THEN seen ELSE prevNics
           /\ prevTotal' = total
           /\ ready' = TRUE
           /\ netstatic' = IF rotate = 0 THEN netstatic ELSE ns
           /\ bill' = IF rotate = 0 THEN bill ELSE Billed(opens)
           /\ running' = IF rotate = 0 THEN "idle" ELSE "saving"
    /\ fell' = (fell \/ ~opens)
    /\ fresh' = IF opens THEN [n \in Nics |-> 0] ELSE fresh
    /\ IF opens THEN UNCHANGED upsets ELSE Upset
    /\ UNCHANGED <<rotate, tfWorld, disk, billOnDisk, early, setBack>>

\* NetStatic::save: the stage file replaces the old one, or nothing changes.
Save(succeeds) ==
    /\ running = "saving"
    /\ running' = "idle"
    /\ disk' = IF succeeds THEN netstatic ELSE disk
    /\ billOnDisk' = IF succeeds THEN bill ELSE billOnDisk
    /\ UNCHANGED <<rotate, tfWorld, tfMemory, upsets, fresh, bill, early, setBack, fell>>

TfNext ==
    \/ \E n \in Nics : Move(n) \/ Unplug(n) \/ Plug(n)
    \/ NextDay
    \/ ClockBack
    \/ Kill
    \/ Begin
    \/ \E opens \in BOOLEAN : Tick(opens)
    \/ \E succeeds \in BOOLEAN : Save(succeeds)

(***************************************************************************)
(* Properties.                                                             *)
(***************************************************************************)

\* While no counter falls, the total is every byte since the first tick of the
\* cycle that the calendar bills, none twice and none of another cycle, through
\* kills and failed saves (maybe_reset, encode_report).  Excepted are a cycle
\* that began before its file's first rotation (the file carries that month
\* already, so its day resets nothing), one first seen in the month after (the
\* reset waits for the day), and clocks set back to another month or cycle.
TotalExact ==
    /\ rotate # 0 /\ running # "down"
    /\ ~fell /\ ~setBack /\ ~bill.late /\ bill.cycle # early
    => netstatic.bytes = bill.bytes % Width

\* No rate that the next tick would show is above what really passed.
RatesReal == \A n \in DOMAIN counter : RateOf(counter, n) <= fresh[n]

\* Totals and rates together: what is reported of the traffic went over the wire.
TrafficAccounted == TotalExact /\ RatesReal

TfSpec == TfInit /\ [][TfNext]_tfVars

=============================================================================
