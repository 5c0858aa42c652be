--------------------------- MODULE MCFailoverPolicy ---------------------------
(***************************************************************************)
(* FailoverPolicy with the configurations CP may install by update_config: *)
(* another primary with a shorter recovery hold, and return to primary     *)
(* switched off.                                                            *)
(***************************************************************************)
EXTENDS FailoverPolicy

MCUpdateConfigs ==
  { [CtorConfig EXCEPT !.primary = 3, !.recoveryHold = 1],
    [CtorConfig EXCEPT !.returnToPrimary = FALSE] }

\* Runs that keep the constructor's configuration.
NoUpdates == {}
==============================================================================
