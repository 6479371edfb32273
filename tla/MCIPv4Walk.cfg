CONSTANT Subnet <- AllSubnets
CONSTANT Taken <- TakenBefore
SPECIFICATION Spec
INVARIANTS TypeOK ReleaseFindsBit OnlyLastOutside AddressIsNew
CHECK_DEADLOCK FALSE
