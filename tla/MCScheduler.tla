----------------------------- MODULE MCScheduler -----------------------------
(* Three days, the second the first of summer time, of six ticks each.       *)
EXTENDS Scheduler

GMT == [attributes |-> {"GMT", "WORK"}, sunrise |-> 2, sunset |-> 5]
BST == [attributes |-> {"BST", "WORK"}, sunrise |-> 2, sunset |-> 5]
Sunday == [attributes |-> {"BST", "NONWORK"}, sunrise |-> 1, sunset |-> 5]

MCDays == <<GMT, BST, Sunday>>

Every == {"GMT", "BST"}

\* refreshdevices runs through the day; lights has sequences by kind of day, one of them at
\* sunset, one that begins the evening before (as smart.smt's morning does) and one in the
\* morning.
MCSequences ==
    [refreshdevices |-> <<[start |-> 1, days |-> Every, offsets |-> <<0, 2, 4>>]>>,
     lights |-> <<[start |-> SUNSET_TIME, days |-> {"WORK"}, offsets |-> <<-1, 0>>],
                  [start |-> 4, days |-> {"NONWORK"}, offsets |-> <<0>>],
                  [start |-> 3, days |-> {"WORK"}, offsets |-> <<-4>>],
                  [start |-> 2, days |-> {"WORK"}, offsets |-> <<0>>]>>]

MCTimers == DOMAIN MCSequences

RefreshOnly == [refreshdevices |-> MCSequences.refreshdevices]
RefreshTimers == {"refreshdevices"}
=============================================================================
