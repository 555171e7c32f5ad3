--------------------------- MODULE MCConnections ---------------------------
(* Connections on small instances.                                         *)
EXTENDS Connections, TLC

CONSTANTS c1, c2

\* A metric for every database, then one for "postgres" only.
BothKinds == << [all |-> TRUE, on |-> "both"], [all |-> FALSE, on |-> "primary"] >>

\* One kind of scraper at a time, alone and with what breaks its exclusion.
OneScraper ==
    LET Deploy(m, h, t, k) ==
            [metrics |-> m, history |-> h, blocking_timeout |-> t, killed |-> k]
    IN  { Deploy(TRUE, FALSE, FALSE, FALSE), Deploy(FALSE, TRUE, FALSE, FALSE),
          Deploy(TRUE, FALSE, TRUE, FALSE),  Deploy(FALSE, TRUE, FALSE, TRUE) }

\* Scrapes and the history, which do not exclude each other, and no failure of any kind.
Together ==
    { [metrics |-> TRUE, history |-> TRUE, blocking_timeout |-> FALSE, killed |-> FALSE] }
=============================================================================
