-------------------------- MODULE MCCampaignTeam ----------------------------
EXTENDS TenantRows, TLC

\* Users, profiles and requests are interchangeable.
Symmetry == Permutations(User) \cup Permutations(Profile) \cup Permutations(Call)
=============================================================================
