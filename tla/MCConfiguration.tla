-------------------------- MODULE MCConfiguration --------------------------
(* Small environments and files for Configuration.                         *)
EXTENDS Configuration

Plain(n) == [value |-> n, unit |-> FALSE]
Seconds(n) == [value |-> n, unit |-> TRUE]

MCEnvironments ==
    [strategy : {"", "heuristic", "adaptive", "other"},
     limit    : {Unset, Garbage, Plain(0), Plain(3), Plain(16), Plain(70)},
     min      : {Unset, Garbage, Plain(0), Plain(8)},
     max      : {Unset, Plain(6), Plain(16)},
     delta    : {Unset, Plain(0), Plain(2), Seconds(2)},
     cooldown : {Unset, Plain(0), Plain(8), Seconds(8)},
     fresh    : {Seconds(0), Seconds(30)}]

(* No file, the one of the image, and one of an experiment.                *)
MCFiles ==
    {[min |-> Unset, max |-> Unset, delta |-> Unset, cooldown |-> Unset],
     ImageFile,
     [min |-> Plain(8), max |-> Plain(16), delta |-> Plain(8), cooldown |-> Plain(8)]}
=============================================================================
