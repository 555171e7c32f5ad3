----------------------------- MODULE Responses -----------------------------
(***************************************************************************)
(* How a response is put together: from the results of the queries         *)
(* (Exposition), and by the bridge from the responses of others            *)
(* (PrometheusClient). The two share no state.                             *)
(***************************************************************************)
EXTENDS Naturals, Sequences

CONSTANTS
    Scrapes, Returned(_), Missing, MaxColumns,    \* Exposition
    Bodies, Address, MaxValues                    \* PrometheusClient

VARIABLES
    scrape, stage, fds, ask, sent, list, cell, store, entry, text,
    bodies, doing, endpoint, body, metric, buffer, gathered, lost, response

E == INSTANCE Exposition WITH Setups <- Scrapes, Rows <- Returned, Null <- Missing
C == INSTANCE PrometheusClient WITH Setups <- Bodies

exposition == << scrape, stage, fds, ask, sent, list, cell, store, entry, text >>
bridging   == << bodies, doing, endpoint, body, metric, buffer, gathered, lost, response >>

\* Every server is asked for its metrics, and a response shows every row of every result
\* once, with its server, below the one header of its metric, grouped by the first column
\* (Exposition).
ExpositionSound ==
    E!EverythingAsked /\ E!FamiliesWhole /\ E!HeaderFirst /\ E!RowsShown /\ E!RowsGrouped

\* The bridge shows each sample of each endpoint that answers, with its endpoint, and
\* nothing else (PrometheusClient).
BridgeKeepsSamples == C!BridgeKeepsSamples /\ C!EndpointsApart
=============================================================================
