--------------------------- MODULE CgroupInvariant ----------------------------
(***************************************************************************)
(* The inductive invariant behind the theorems on the control-group        *)
(* hierarchy: its conjuncts, and the sums they are written with.           *)
(***************************************************************************)
EXTENDS Cgroup

\* How many members of S a walk up from their place f brings to each group.
Tally(S, f) == [g \in Groups |-> Cardinality({m \in S : g \in Chain(f[m])})]

Charged == {m \in Members : counted[m]}
Stopped == {m \in Live : halted[m]}

\* CountsExact, as equations between functions.
Counts ==
    /\ charged = Tally(Charged, at)
    /\ populated = Tally(Live, at)
    /\ stopped = Tally(Stopped, at)

\* Where members and groups can be: what the pointers m->groups[0], g->parent
\* and o->group of the code may refer to.
Places ==
    /\ \A m \in Members : task[m] = "none" => at[m] = None /\ ~counted[m]
    /\ \A m \in Members : task[m] = "exec" => ~counted[m]
    /\ \A m \in Members : at[m] # None => dir[at[m]] # "absent"
    /\ \A m \in Members : task[m] # "none" /\ at[m] = None => dir[Root] = "absent"
    /\ \A m \in Members : zombie[m] => task[m] = "departed"
    /\ \A m \in Members : halted[m] => used
    /\ used => dir[Root] # "absent"
    /\ \A g \in Groups : dir[g] # "absent" => \A a \in Up[g] : dir[a] # "absent"
    /\ \A g \in Groups : dir[g] = "absent" => ~freeze[g] /\ max[g] = None
    /\ \/ lock = Free \/ lock.op = "exec"
       \/ lock.op = "move" /\ lock.to \in Groups /\ AttachAllowed(lock.to) /\ lock.left \subseteq Live

\* A live directory is below live directories.
Rooted == \A c \in Groups : dir[c] = "live" => \A a \in Up[c] : dir[a] = "live"

\* A limit is where a control shows it.
Limited == \A g \in Groups : max[g] # None /\ dir[g] = "live" => Enabled(g)

\* A group's effective state is what its ancestors' controls say; a member
\* is told the same; a group is frozen when its counters agree.
Effective ==
    \A g \in Groups : IF dir[g] = "absent" THEN ~effective[g]
                      ELSE effective[g] <=> Freezing(g, freeze)
Told == \A m \in Members : freezing[m] <=> Freezing(at[m], freeze)
Agreed == \A g \in Groups : frozen[g] <=> effective[g] /\ stopped[g] = populated[g]

\* What a read of cgroup.events gives.
Shown(w) == [populated |-> populated[w] # 0, frozen |-> frozen[w]]

\* A reader that would wait has read what is there, from a live directory.
Watching == \A w \in Watched : ~ready[w] => dir[w] = "live" /\ seen[w] = Shown(w)

\* The inductive invariant.
IInv ==
    /\ TypeOK /\ Places /\ Counts
    /\ Rooted /\ Limited
    /\ Effective /\ Told /\ Agreed
    /\ Watching
===============================================================================
