\* Syncs with every kind of document, processes of both releases, every read and every
\* step of a task failing.
CONSTANTS
    Documents <- MCDocuments
    Processes <- MCProcesses
    Series <- MCSeries
    Alternatives <- MCAlternatives
    Language <- MCLanguage
SPECIFICATION Spec
INVARIANTS TypeOK AdministratorWins RejectedForItsDocuments TelemetryOnce MountsAreDefined
    EtcdAllOrNothing KeepsWhatIsSelected CountsWhatIsSent
