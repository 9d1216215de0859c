-------------------------- MODULE MCPhaseExecution --------------------------
EXTENDS PhaseExecution, TLC

Symmetry == Permutations(Calls)

Fine     == [ok |-> TRUE, status |-> "reviewed", vote |-> "approved",
             blockers |-> FALSE, decision |-> ""]
Objects  == [Fine EXCEPT !.vote = "changes_required", !.blockers = TRUE]
Review(policy, strategy) ==
    [phase |-> "reviewer", strategy |-> strategy, minS |-> 2, minA |-> 2, conc |-> 2,
     policy |-> policy, writes |-> FALSE, profiles |-> <<"p", "q">>]

Plan_ == [Review("unanimous", "all") EXCEPT !.phase = "architect", !.minS = 1]
SomeRoles   == {Review("quorum", "all"), Plan_,
                [Review("", "first-success") EXCEPT !.minS = 1, !.minA = 1]}
SomePresets == {"custom", "fast"}

Agent(ref, healthy, roles) ==
    [ref |-> ref, digest |-> ref, healthy |-> healthy, can |-> {"workspace.read"},
     writes |-> FALSE, roles |-> roles, version |-> 1]
SomeTeams == {[override |-> "", automatic |-> FALSE, agents |-> {}],
              [override |-> "", automatic |-> TRUE,
               agents |-> {Agent("a", TRUE, {"reviewer"}), Agent("b", FALSE, {}),
                           Agent("d", TRUE, {})}]}
SomeAnswers == {Fine, Objects}
=============================================================================
