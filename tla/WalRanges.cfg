SPECIFICATION Spec
CONSTANT object_size = 9
INVARIANTS WalTypeOK WalSeparated WalCovers
