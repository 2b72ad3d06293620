------------------------------ MODULE MCMedia ------------------------------
EXTENDS Media
CONSTANTS p1, c1
MCReplyTo == [c \in Replies |-> p1]
=============================================================================
