CONSTANT MaxWire = 2
SPECIFICATION Spec
INVARIANTS TypeOK OneVoicePath CaptureEndsWithPress HostTalkEndsWithPress KeyUpWithPress
PROPERTY TalkLockEnds
