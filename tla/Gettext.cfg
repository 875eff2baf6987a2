SPECIFICATION Spec
CONSTANTS
    Lowercase <- SomeLowercase
    Digits = {"8"}
    Domains = {"sags"}
    DefaultDomain = "messages"
    Directories = {"share", "own"}
    DefaultDirname = "share"
    Codesets = {"latin1"}
    LocaleCharset = "utf8"
    CanConvert <- SomeConversions
    CannotConvert <- SomeFailures
    Environments <- SomeEnvironments
    AliasFiles <- SomeAliasFiles
    Layouts <- SomeLayouts
    Messages = {"a", "b"}
    MaxChanges = 2
    MaxEnvironments = 2
INVARIANTS
    ServesSettings
    InBoundCodeset
