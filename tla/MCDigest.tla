------------------------------ MODULE MCDigest ------------------------------
(* One member on both sides of the family.  Two mailboxes or two posts,     *)
(* never both: what a mailbox has proven and what a window carries do not   *)
(* depend on one another.  Two posts are neither late nor taken down, and   *)
(* the member uses the address they sign in with.                           *)
EXTENDS Digest, TLC

Interchangeable == Permutations(Posts) \cup Permutations(Yards)
                    \cup Permutations(Runs)

OnePost == Cardinality({p \in Posts : posts[p] # Nothing}) <= 1
OwnMailbox ==
    /\ \A p \in Posts : posts[p] # Nothing => ~posts[p].late /\ ~posts[p].down
    /\ Enrolled => sub.address = Own
    /\ form # Nothing => form.address = Own
    /\ acts <= 1 /\ Known \cap Links \subseteq 1 .. 3
MailboxesOrPosts == OnePost \/ OwnMailbox
=============================================================================
