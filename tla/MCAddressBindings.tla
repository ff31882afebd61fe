-------------------------- MODULE MCAddressBindings --------------------------
EXTENDS AddressBindings, TLC
CONSTANTS u1, u2, a1, a2, a3, n1, n2, net, oldnet

\* a3 is the address of a row from an old settings file; a1 and a2 share the /24
\* that is free for adoption.
Nets == [a \in Addrs |-> IF a = a3 THEN oldnet ELSE net]

\* Users, adapters, and the two adoptable addresses are interchangeable.
Symmetry == Permutations(Users) \cup Permutations(Nics) \cup Permutations({a1, a2})
==============================================================================
