--------------------------- MODULE MCInvitations ----------------------------
(* Instances for TLC: an invitation for a person who has no account yet, and    *)
(* one for a member.                                                            *)
EXTENDS Invitations, TLC

CONSTANTS i1, i2, newcomer, member, category, module

TwoAddresses == (i1 :> newcomer) @@ (i2 :> member)
NewcomerOnly == i1 :> newcomer
OnePerkEach == (i1 :> {category}) @@ (i2 :> {module})
OnePerk == i1 :> {module}
OneMember == <<member>>
NoMember == <<>>
=============================================================================
