--------------------------- MODULE PersistentStore ---------------------------
(***************************************************************************)
(* What a writable storage promises gconfd: values are changed in memory    *)
(* and saved later.  However saving is cut short, what is saved for a key   *)
(* is the old or the new value, a sync that reports success has saved all,  *)
(* and after a crash the storage holds what was saved.                      *)
(*                                                                          *)
(* spoilt collects the keys for which a storage is known to fail this.      *)
(***************************************************************************)
CONSTANTS
    Key,
    Entry,      \* what may be stored for a key
    Nothing     \* nothing is stored

VARIABLES
    mem,        \* what a query answers
    saved,      \* what a new process would read
    spoilt,     \* keys whose saved entry is not to be trusted
    told        \* answer of the last sync: "saved", "failed", or "none" yet

vars == <<mem, saved, spoilt, told>>

Stored == Entry \cup {Nothing}

Init ==
    /\ saved \in [Key -> Stored]
    /\ mem = saved
    /\ spoilt = {}
    /\ told = "none"

\* set_value, unset_value and set_schema of one key.
Request ==
    /\ \E k \in Key, e \in Stored : mem' = [mem EXCEPT ![k] = e]
    /\ UNCHANGED <<saved, spoilt, told>>

Spoil ==
    /\ mem' \in [Key -> Stored] /\ saved' \in [Key -> Stored]
    /\ spoilt \subseteq spoilt' /\ spoilt' \subseteq Key

\* Part of a sync.
Save ==
    /\ Spoil
    /\ \A k \in Key \ spoilt' : mem'[k] = mem[k] /\ saved'[k] \in {saved[k], mem[k]}
    /\ told' \in {"none", told}

Answer ==
    /\ told' \in {"saved", "failed"}
    /\ told' = "saved" => \A k \in Key \ spoilt : saved[k] = mem[k]
    /\ UNCHANGED <<mem, saved, spoilt>>

\* The process ends, or drops what it has in memory; the next one reads.
Restart ==
    /\ Spoil
    /\ mem' = saved'
    /\ \A k \in Key \ spoilt' : saved'[k] = saved[k]
    /\ told' = "none"

Next == Request \/ Save \/ Answer \/ Restart

Spec == Init /\ [][Next]_vars
=============================================================================
