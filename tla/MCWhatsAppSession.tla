------------------------ MODULE MCWhatsAppSession ------------------------
EXTENDS WhatsAppSession, TLC

Symmetric == Permutations(Sockets) \union Permutations(Identities) \union Permutations(Calls)
==========================================================================
