\* The pure shaping operators against their reference definitions.
SPECIFICATION Spec

INVARIANT PreferredLinksMatchReference
INVARIANT QosInfoMatchesReference
