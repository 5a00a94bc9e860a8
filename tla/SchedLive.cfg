SPECIFICATION Spec
PROPERTIES TerminatedStays IdleOnlyWhenNothingReady ZombieReaped ReadyRuns
