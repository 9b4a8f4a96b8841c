------------------------------- MODULE MCRings -------------------------------
\* Small instances of Rings.
EXTENDS Rings, TLC

CONSTANTS init, check, get, list

MCCalls == {init, check, get, list}
MCCallType ==
    init :> "Initialize" @@ check :> "CheckInitialized" @@ get :> "Get" @@ list :> "List"
=============================================================================
