----------------------------- MODULE MCRaceLoop -----------------------------
EXTENDS RaceLoop

MCOffered == MessagesOf

MCTimeout == [i \in Inputs |-> 0]
=============================================================================
