CONSTANTS
    UpdaterInterval = 3
    MaxRunOnce = 10
    MaxStartup = 2
SPECIFICATION Spec
INVARIANT TypeOK
INVARIANT HealthCheckPasses
