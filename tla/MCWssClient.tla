---------------------------- MODULE MCWssClient ----------------------------
EXTENDS WssClient

CONSTANTS m1, m2

MCMapChoices == {m1, m2}
=============================================================================
