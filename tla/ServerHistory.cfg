SPECIFICATION Spec
CONSTANT Addresses <- SomeAddresses
INVARIANTS
    AddressIsMeant
PROPERTY
    ImplementsRecent
