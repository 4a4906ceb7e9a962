------------------------ MODULE MCPlanningScenarios ------------------------
\* One scenario and one key of values: rows of different scenarios never
\* meet.  Two users and two threads give every pair of overlapping requests.
EXTENDS PlanningScenarios, TLC

Symmetries == Permutations(Users) \cup Permutations(Requests)

=============================================================================
