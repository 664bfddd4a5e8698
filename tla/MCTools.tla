------------------------------- MODULE MCTools --------------------------------
(***************************************************************************)
(* The small instances of the tools, in one run.  They share no state: a   *)
(* behaviour is of one tool, and the others rest as they began.            *)
(***************************************************************************)
EXTENDS MCContextBuffer, MCSyntheticData, MCDeckFolder, MCQaSheet, MCDemoDrive, MCPitchScript

VARIABLE part

Init ==
    /\ part \in {"context", "data", "deck", "faq", "drive", "script"}
    /\ ContextInit /\ DataInit /\ DeckInit /\ QaInit /\ DriveInit /\ ScriptInit
    /\ part # "context" => config = CHOOSE c \in Configs : TRUE
    /\ part # "script" => inputs = CHOOSE in \in Inputs : TRUE

Next ==
    \/ /\ part = "context" /\ ContextNext
       /\ UNCHANGED <<part, dataVars, deckVars, qaVars, driveVars, scriptVars>>
    \/ /\ part = "data" /\ DataNext
       /\ UNCHANGED <<part, contextVars, deckVars, qaVars, driveVars, scriptVars>>
    \/ /\ part = "deck" /\ DeckNext
       /\ UNCHANGED <<part, contextVars, dataVars, qaVars, driveVars, scriptVars>>
    \/ /\ part = "faq" /\ QaNext
       /\ UNCHANGED <<part, contextVars, dataVars, deckVars, driveVars, scriptVars>>
    \/ /\ part = "drive" /\ DriveNext
       /\ UNCHANGED <<part, contextVars, dataVars, deckVars, qaVars, scriptVars>>
    \/ /\ part = "script" /\ ScriptNext
       /\ UNCHANGED <<part, contextVars, dataVars, deckVars, qaVars, driveVars>>

vars == <<part, contextVars, dataVars, deckVars, qaVars, driveVars, scriptVars>>

Spec == Init /\ [][Next]_vars
=============================================================================
