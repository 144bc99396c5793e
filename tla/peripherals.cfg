SPECIFICATION Spec

INVARIANT HostTypeOK
INVARIANT HostTranslationCorrect
INVARIANT HostHwMatchesRecord
INVARIANT DelayTypeOK
INVARIANT DelayLongEnough
PROPERTY DelayReturns
INVARIANT WdtTypeOK
INVARIANT WdtTimeoutHonoured
INVARIANT SpiTypeOK
INVARIANT SpiRxFifoBound
INVARIANT SpiXferDelivers
PROPERTY SpiCsFraming
PROPERTY SpiXferReturns
INVARIANT PwmTypeOK
INVARIANT PwmBacklightLevel
INVARIANT PwmConfigSound
INVARIANT EmacTypeOK
INVARIANT LcdTypeOK
INVARIANT LcdNoWriteToShown
INVARIANT LcdShowsLatest
INVARIANT LcdTouchSampleFresh
INVARIANT HotplugBeliefConsistent
PROPERTY HotplugForcedReplugJustified
PROPERTY HotplugRemount
INVARIANT IrqTypeOK
INVARIANT IrqHandlerBeforeUnmask
PROPERTY IrqQuiesces
PROPERTY IrqUartRxDelivered
 
INVARIANT IrqEthNoFrameLost
INVARIANT RtcTmRoundTrip
