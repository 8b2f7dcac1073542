------------------------------- MODULE MCVmm -------------------------------
(* The instance of the virtual memory TLC checks.                            *)
EXTENDS VmmInv

\* One table of three pages: anonymous memory, a program page, a device page.
MCZoneKind ==
    [pg \in Pages |-> CASE pg = <<1, 1>> -> "anon"
                        [] pg = <<1, 2>> -> "text"
                        [] OTHER         -> "dev"]

\* A machine with a swap file and enough memory that nobody sleeps, and one
\* without swap where every allocation may have to wait.
MCBoots == {[ram |-> 14, swap |-> TRUE, spaces |-> 1], [ram |-> 8, swap |-> FALSE, spaces |-> 2]}
=============================================================================
