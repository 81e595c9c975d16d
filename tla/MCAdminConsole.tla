--------------------------- MODULE MCAdminConsole ---------------------------
EXTENDS AdminConsole, TLC

CONSTANTS root, bob

MCNames == {root, bob}

\* Mostly one field each, and a payload that an update refuses and a creation
\* takes, with its unknown role and 1 for its max_conns.
MCRoles == {"admin", "user", "auditor"}

MCPayloads == {[role |-> "admin"], [role |-> "user"], [enabled |-> FALSE],
               [enabled |-> TRUE, maxConns |-> 2], [expired |-> TRUE],
               [role |-> "auditor", maxConns |-> 0]}

Line(n, p, password, parses) == [user |-> n, set |-> p, password |-> password, parses |-> parses]

\* A file that disables the configured administrator after a bad line, and one
\* that changes a limit or creates the account.
MCFiles == {<<Line(bob, [role |-> "user"], FALSE, FALSE), Line(root, [enabled |-> FALSE], FALSE, TRUE)>>,
            <<Line(bob, [enabled |-> TRUE, maxConns |-> 2], TRUE, TRUE)>>}
=============================================================================
