------------------------------ MODULE MCEthSrv ------------------------------
(***************************************************************************)
(* EthSrv on a small instance.                                             *)
(***************************************************************************)
EXTENDS EthSrv

\* All pages by soft start or page mode, with X arrays and without; all shifts;
\* a value or nothing; the ini file.
MCMenu ==
    {r \in Commands :
        CASE r.op \in {"read", "shifts"} -> r.n = Pages
          [] r.op = "other"              -> r.n \in {0, 1}
          [] OTHER                       -> TRUE}
=============================================================================
