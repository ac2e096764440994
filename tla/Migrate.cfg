SPECIFICATION MigrateSpec
CONSTANTS
    Process = {daemon, cli, other}
    Checksum = {"a", "b", "c", "d", "x"}
    Release <- Releases
INVARIANTS RecordedIsExecuted OpenStoreKeepsSchema
PROPERTIES ImplementsHistory OpensItsOwn
